---- MODULE Spec2Model ----
(***************************************************************************)
(* Model of the image persistence pipeline of gemini-image-mcp-server:     *)
(* ImageService.saveImage (filename derivation, path resolution, optional  *)
(* watermark, directory creation, write) over an explicit file system.     *)
(*                                                                         *)
(* Strings are sequences of one-character strings, so that the string      *)
(* operations of the code (regex replace, slice, endsWith, path.extname,   *)
(* path.resolve, path.join, base64 decoding) are computed as the code      *)
(* computes them.                                                          *)
(***************************************************************************)
EXTENDS Integers, Sequences, FiniteSets, TLC

VARIABLES
    dirs,        \* file system: the set of paths that are directories
    files,       \* file system: path -> content of every regular file
    now,         \* the clock, in ms after 2025-01-01T00:00:00.000Z
    pc,          \* per call: position in saveImage
    image,       \* per call: the imageData argument
    opts,        \* per call: the options argument
    filename,    \* per call: the derived filename (line 132)
    finalPath,   \* per call: the resolved path (line 135)
    buffer,      \* per call: the bytes to be written (lines 138-143)
    wmRan,       \* per call: whether addWatermark ran (line 142)
    wmGeom,      \* per call: the geometry addWatermark computed
    result,      \* per call: the value saveImage returned
    error,       \* per call: the error saveImage rejected with
    nameOut,     \* filename derivation alone: its inputs and outputs
    geomOut,     \* watermark geometry alone: its inputs and outputs
    steps,       \* per call: the awaited operations saveImage started, in order
    req,         \* the generate_image request being handled
    proc,        \* the process: environment, start-up position, exit code
    errOut       \* ensureMcpError alone: its inputs and outputs

vars == <<dirs, files, now, pc, image, opts, filename, finalPath, buffer,
          wmRan, wmGeom, result, error, nameOut, geomOut, steps, req, proc,
          errOut>>

---------------------------------------------------------------------------
(* Characters and strings *)

LowerCase == {"a","b","c","d","e","f","g","h","i","j","k","l","m",
              "n","o","p","q","r","s","t","u","v","w","x","y","z"}
UpperCase == {"A","B","C","D","E","F","G","H","I","J","K","L","M",
              "N","O","P","Q","R","S","T","U","V","W","X","Y","Z"}
DigitChars == <<"0","1","2","3","4","5","6","7","8","9">>
Digits == {DigitChars[i] : i \in 1..10}

\* \s of a JavaScript regular expression, as far as the inputs use it
WhiteSpace == {" ", "\t", "\n"}

Min(a, b) == IF a <= b THEN a ELSE b
Max(a, b) == IF a >= b THEN a ELSE b

\* String.prototype.slice(0, n) for n >= 0
SliceTo(s, n) == SubSeq(s, 1, Min(n, Len(s)))

\* String.prototype.slice(0, -n) for n > 0
SliceDropLast(s, n) == SubSeq(s, 1, Max(Len(s) - n, 0))

\* String.prototype.endsWith
EndsWith(s, suffix) ==
    /\ Len(s) >= Len(suffix)
    /\ SubSeq(s, Len(s) - Len(suffix) + 1, Len(s)) = suffix

\* String.prototype.startsWith
StartsWith(s, prefix) ==
    /\ Len(s) >= Len(prefix)
    /\ SubSeq(s, 1, Len(prefix)) = prefix

\* An optional value: undefined, or a value
Undefined == <<>>
Some(v) == <<v>>
IsDefined(o) == Len(o) = 1
\* JavaScript truthiness of an optional string: defined and not ''
Truthy(o) == IsDefined(o) /\ Len(o[1]) > 0

---------------------------------------------------------------------------
(* Filename derivation, saveImage lines 122-132 *)

PNG == <<"i","m","a","g","e","/","p","n","g">>
JPEG == <<"i","m","a","g","e","/","j","p","e","g">>
WEBP == <<"i","m","a","g","e","/","w","e","b","p">>

ExtensionJpegBug(mimeType) ==
    IF mimeType = PNG THEN <<".","p","n","g">>
    ELSE IF mimeType = JPEG THEN <<".","j","p","e","g">>
    ELSE IF mimeType = WEBP THEN <<".","w","e","b","p">>
    ELSE <<".","p","n","g">>

\* lines 123-125
Extension(mimeType) ==
    IF mimeType = PNG THEN <<".","p","n","g">>
    ELSE IF mimeType = JPEG THEN <<".","j","p","g">>
    ELSE IF mimeType = WEBP THEN <<".","w","e","b","p">>
    ELSE <<".","p","n","g">>

\* Two decimal digits, three decimal digits
Pad2(n) == <<DigitChars[((n \div 10) % 10) + 1], DigitChars[(n % 10) + 1]>>
Pad3(n) == <<DigitChars[((n \div 100) % 10) + 1]>> \o Pad2(n % 100)

\* Date.prototype.toISOString for a clock within the first hour of the epoch
\* the model uses: YYYY-MM-DDTHH:MM:SS.mmmZ
ToISOString(ms) ==
    <<"2","0","2","5","-","0","1","-","0","1","T","0","0",":">>
      \o Pad2((ms \div 60000) % 60) \o <<":">>
      \o Pad2((ms \div 1000) % 60) \o <<".">>
      \o Pad3(ms % 1000) \o <<"Z">>

\* .replace(/[:.]/g, '-')
ReplaceColonDot(s) ==
    [i \in 1..Len(s) |-> IF s[i] \in {":", "."} THEN "-" ELSE s[i]]

\* line 128
Timestamp(ms) == SliceDropLast(ReplaceColonDot(ToISOString(ms)), 5)

\* a variant that lets the separators of file names and paths through
IsAllowedCharOrSeparator(c) ==
    c \in LowerCase \cup UpperCase \cup Digits \cup WhiteSpace \cup {"/", "."}

\* .replace(/[^a-zA-Z0-9\s]/g, '')
IsAllowedChar(c) == c \in LowerCase \cup UpperCase \cup Digits \cup WhiteSpace
StripDisallowed(s) == SelectSeq(s, IsAllowedChar)

\* 1, 2, ..., n
Indices(n) == [i \in 1..n |-> i]

\* .replace(/\s+/g, '_'): every maximal run of whitespace becomes one '_'
\* (the last character of a run stands for the run)
CollapseWhiteSpace(s) ==
    LET EndsRun(i) == s[i] \notin WhiteSpace \/ i = Len(s) \/ s[i + 1] \notin WhiteSpace
        kept == SelectSeq(Indices(Len(s)), EndsRun)
    IN [k \in 1..Len(kept) |-> IF s[kept[k]] \in WhiteSpace THEN "_" ELSE s[kept[k]]]

MaxDescriptionLength == 50

IMAGE == <<"i","m","a","g","e">>

\* the description after both replaces, before the slice
Sanitized(description) == CollapseWhiteSpace(StripDisallowed(description))

SafeDescriptionNoSlice(description) ==
    IF Truthy(description)
    THEN Sanitized(description[1])
    ELSE IMAGE

\* lines 129-131
SafeDescription(description) ==
    IF Truthy(description)
    THEN SliceTo(Sanitized(description[1]), MaxDescriptionLength)
    ELSE IMAGE

\* line 132
Filename(description, mimeType, ms) ==
    SafeDescription(description) \o <<"_">> \o Timestamp(ms) \o Extension(mimeType)

---------------------------------------------------------------------------
(* Node's posix path module, as saveImage and resolvePath use it *)

\* process.cwd()
Cwd == <<"/","w">>

\* the segments of a path between its separators, empty ones dropped
Split(s) ==
    LET IsSeparator(i) == s[i] = "/"
        NonEmpty(seg) == seg # <<>>
        cuts == <<0>> \o SelectSeq(Indices(Len(s)), IsSeparator) \o <<Len(s) + 1>>
        pieces == [k \in 1..(Len(cuts) - 1) |->
                      SubSeq(s, cuts[k] + 1, cuts[k + 1] - 1)]
    IN SelectSeq(pieces, NonEmpty)

DOT == <<".">>
DOTDOT == <<".", ".">>

\* normalizeString: '.' dropped, '..' removes the segment before it; above
\* the root of an absolute path '..' is dropped, in a relative path it stays
RECURSIVE NormalizeSegs(_, _, _)
NormalizeSegs(segs, isAbsolute, acc) ==
    IF segs = <<>> THEN acc
    ELSE LET seg == Head(segs) IN
         IF seg = DOT THEN NormalizeSegs(Tail(segs), isAbsolute, acc)
         ELSE IF seg = DOTDOT
              THEN IF acc # <<>> /\ acc[Len(acc)] # DOTDOT
                   THEN NormalizeSegs(Tail(segs), isAbsolute, SubSeq(acc, 1, Len(acc) - 1))
                   ELSE IF isAbsolute
                        THEN NormalizeSegs(Tail(segs), isAbsolute, acc)
                        ELSE NormalizeSegs(Tail(segs), isAbsolute, Append(acc, seg))
              ELSE NormalizeSegs(Tail(segs), isAbsolute, Append(acc, seg))

\* segments joined by '/'
RECURSIVE JoinSegs(_)
JoinSegs(segs) ==
    IF segs = <<>> THEN <<>>
    ELSE IF Len(segs) = 1 THEN segs[1]
    ELSE segs[1] \o <<"/">> \o JoinSegs(Tail(segs))

IsAbsolute(p) == Len(p) > 0 /\ p[1] = "/"

\* path.normalize
Normalize(p) ==
    IF p = <<>> THEN DOT
    ELSE LET segs == NormalizeSegs(Split(p), IsAbsolute(p), <<>>)
             body == JoinSegs(segs)
             trailing == p[Len(p)] = "/"
         IN IF body = <<>>
            THEN IF IsAbsolute(p) THEN <<"/">>
                 ELSE IF trailing THEN <<".","/">> ELSE DOT
            ELSE (IF IsAbsolute(p) THEN <<"/">> ELSE <<>>)
                   \o body \o (IF trailing THEN <<"/">> ELSE <<>>)

\* path.join(a, b)
Join(a, b) ==
    IF a = <<>> /\ b = <<>> THEN DOT
    ELSE IF a = <<>> THEN Normalize(b)
    ELSE IF b = <<>> THEN Normalize(a)
    ELSE Normalize(a \o <<"/">> \o b)

\* path.resolve(from, to) for an absolute from: to itself when it is
\* absolute, else from/to; normalized, without trailing separator
Resolve2(from, to) ==
    LET full == IF IsAbsolute(to) THEN to ELSE from \o <<"/">> \o to
    IN <<"/">> \o JoinSegs(NormalizeSegs(Split(full), TRUE, <<>>))

\* path.resolve(p): against the current working directory
Resolve(p) == Resolve2(Cwd, p)

\* index of the last '.' of s, 0 when it has none
LastDot(s) ==
    LET dots == {i \in 1..Len(s) : s[i] = "."}
    IN IF dots = {} THEN 0 ELSE CHOOSE i \in dots : \A j \in dots : j <= i

\* path.extname: the extension of the last segment of the path, from its
\* last '.' on; '' when that segment has no '.', starts with its only
\* relevant '.', or is '..'
ExtName(p) ==
    LET segs == Split(p) IN
    IF segs = <<>> THEN <<>>
    ELSE LET base == segs[Len(segs)]
             startDot == LastDot(base)
         IN IF startDot = 0 THEN <<>>
            ELSE IF startDot = 1 THEN <<>>
            ELSE IF base[1] = "." /\ startDot = Len(base) /\ startDot = 2 THEN <<>>
            ELSE SubSeq(base, startDot, Len(base))

---------------------------------------------------------------------------
(* The file system: dirs is the set of directories, files maps every       *)
(* regular file to its content.  Paths are normalized absolute strings.    *)

\* the path and all its ancestors, the root included
RECURSIVE PrefixPaths(_, _)
PrefixPaths(segs, n) ==
    IF n = 0 THEN {<<"/">>}
    ELSE {<<"/">> \o JoinSegs(SubSeq(segs, 1, n))} \cup PrefixPaths(segs, n - 1)
Ancestors(p) == PrefixPaths(Split(p), Len(Split(p)))

\* the directory a path lies in
Parent(p) == Join(p, DOTDOT)

IsFile(fsFiles, p) == p \in DOMAIN fsFiles
IsDir(fsDirs, p) == p \in fsDirs

\* fs.existsSync: the path names a file or a directory
ExistsSync(fsDirs, fsFiles, p) == IsDir(fsDirs, p) \/ IsFile(fsFiles, p)

\* fs.mkdir(p, {recursive: true}) succeeds unless a file is in the way
MkdirOk(fsFiles, p) == \A a \in Ancestors(p) : ~IsFile(fsFiles, a)
MkdirDirs(fsDirs, p) == fsDirs \cup Ancestors(p)

WriteFilesAppend(fsFiles, p, data) ==
    [q \in DOMAIN fsFiles \cup {p} |->
       IF q # p THEN fsFiles[q]
       ELSE IF p \in DOMAIN fsFiles
            THEN [base |-> fsFiles[p].base \o data.base,
                  marks |-> fsFiles[p].marks \o data.marks]
            ELSE data]

\* fs.writeFile(p, data) succeeds when the parent is a directory and p is
\* not one; it creates the file or replaces its whole content
WriteOk(fsDirs, p) == IsDir(fsDirs, Parent(p)) /\ ~IsDir(fsDirs, p)
WriteFiles(fsFiles, p, data) ==
    [q \in DOMAIN fsFiles \cup {p} |-> IF q = p THEN data ELSE fsFiles[q]]

---------------------------------------------------------------------------
(* Buffer.from(base64, 'base64'), saveImage line 138 *)

Base64Chars ==
    <<"A","B","C","D","E","F","G","H","I","J","K","L","M",
      "N","O","P","Q","R","S","T","U","V","W","X","Y","Z",
      "a","b","c","d","e","f","g","h","i","j","k","l","m",
      "n","o","p","q","r","s","t","u","v","w","x","y","z",
      "0","1","2","3","4","5","6","7","8","9","+","/">>

Base64Value(c) == (CHOOSE i \in 1..64 : Base64Chars[i] = c) - 1

\* the characters before the first '='
RECURSIVE UpToPadding(_)
UpToPadding(s) ==
    IF s = <<>> \/ Head(s) = "=" THEN <<>>
    ELSE <<Head(s)>> \o UpToPadding(Tail(s))

\* four 6-bit characters give three bytes, three give two, two give one
RECURSIVE DecodeGroups(_)
DecodeGroups(s) ==
    IF Len(s) < 2 THEN <<>>
    ELSE LET a == Base64Value(s[1])
             b == Base64Value(s[2])
             byte1 == a * 4 + (b \div 16)
         IN IF Len(s) = 2 THEN <<byte1>>
            ELSE LET c == Base64Value(s[3])
                     byte2 == (b % 16) * 16 + (c \div 4)
                 IN IF Len(s) = 3 THEN <<byte1, byte2>>
                    ELSE LET d == Base64Value(s[4])
                             byte3 == (c % 4) * 64 + d
                         IN <<byte1, byte2, byte3>>
                              \o DecodeGroups(SubSeq(s, 5, Len(s)))

Base64Decode(s) == DecodeGroups(UpToPadding(s))

\* The content of a buffer or file: the bytes of the primary image and the
\* overlays composited on it, each <<watermark, left, top, width, height>>
Raw(bytes) == [base |-> bytes, marks |-> <<>>]

\* one byte per character, the 6-bit groups not joined
BufferFromUndecoded(base64) ==
    Raw([i \in 1..Len(UpToPadding(base64)) |-> Base64Value(UpToPadding(base64)[i])])

\* line 138
BufferFrom(base64) == Raw(Base64Decode(base64))

---------------------------------------------------------------------------
(* addWatermark, lines 170-221 *)

DefaultDimension == 1024

\* v || d for a number: d when v is undefined (0 here) or 0
OrDefault(v, d) == IF v = 0 THEN d ELSE v

\* line 183: Math.floor(imageWidth * 0.25)
WatermarkSize(imageWidth) == (imageWidth * 25) \div 100

\* line 199: Math.floor(imageWidth * 0.03)
Padding(imageWidth) == (imageWidth * 3) \div 100

\* n * num / den rounded to the nearest integer, at least 1
ScaleDimension(n, num, den) == Max(1, (2 * n * num + den) \div (2 * den))

\* sharp resize(size, size, {fit: 'inside', withoutEnlargement: true}):
\* the dimensions of the result for a watermark of nativeWidth x nativeHeight
FitInside(nativeWidth, nativeHeight, size) ==
    IF nativeWidth <= size /\ nativeHeight <= size
    THEN <<nativeWidth, nativeHeight>>
    ELSE IF nativeWidth >= nativeHeight
         THEN <<size, ScaleDimension(nativeHeight, size, nativeWidth)>>
         ELSE <<ScaleDimension(nativeWidth, size, nativeHeight), size>>

TopLeft == <<"t","o","p","-","l","e","f","t">>
TopRight == <<"t","o","p","-","r","i","g","h","t">>
BottomLeft == <<"b","o","t","t","o","m","-","l","e","f","t">>
BottomRight == <<"b","o","t","t","o","m","-","r","i","g","h","t">>
Positions == {TopLeft, TopRight, BottomLeft, BottomRight}

WatermarkGeometryOfHeight(infoWidth, infoHeight, nativeWidth, nativeHeight, positionArg) ==
    LET position == IF IsDefined(positionArg) THEN positionArg[1] ELSE BottomRight
        imageWidth == OrDefault(infoWidth, DefaultDimension)
        imageHeight == OrDefault(infoHeight, DefaultDimension)
        watermarkSize == WatermarkSize(imageWidth)
        fitted == FitInside(nativeWidth, nativeHeight, watermarkSize)
        watermarkWidth == OrDefault(fitted[1], watermarkSize)
        watermarkHeight == OrDefault(fitted[2], watermarkSize)
        padding == Padding(imageWidth)
        paddingY == Padding(imageHeight)
        isRight == EndsWith(position, <<"r","i","g","h","t">>)
        isBottom == StartsWith(position, <<"b","o","t","t","o","m">>)
    IN [imageWidth |-> imageWidth,
        imageHeight |-> imageHeight,
        watermarkSize |-> watermarkSize,
        watermarkWidth |-> watermarkWidth,
        watermarkHeight |-> watermarkHeight,
        padding |-> padding,
        left |-> IF isRight THEN imageWidth - watermarkWidth - padding ELSE padding,
        top |-> IF isBottom THEN imageHeight - watermarkHeight - paddingY ELSE paddingY]

WatermarkGeometryBoxOffsets(infoWidth, infoHeight, nativeWidth, nativeHeight, positionArg) ==
    LET position == IF IsDefined(positionArg) THEN positionArg[1] ELSE BottomRight
        imageWidth == OrDefault(infoWidth, DefaultDimension)
        imageHeight == OrDefault(infoHeight, DefaultDimension)
        watermarkSize == WatermarkSize(imageWidth)
        fitted == FitInside(nativeWidth, nativeHeight, watermarkSize)
        watermarkWidth == OrDefault(fitted[1], watermarkSize)
        watermarkHeight == OrDefault(fitted[2], watermarkSize)
        padding == Padding(imageWidth)
        isRight == EndsWith(position, <<"r","i","g","h","t">>)
        isBottom == StartsWith(position, <<"b","o","t","t","o","m">>)
    IN [imageWidth |-> imageWidth,
        imageHeight |-> imageHeight,
        watermarkSize |-> watermarkSize,
        watermarkWidth |-> watermarkWidth,
        watermarkHeight |-> watermarkHeight,
        padding |-> padding,
        left |-> IF isRight THEN imageWidth - watermarkSize - padding ELSE padding,
        top |-> IF isBottom THEN imageHeight - watermarkSize - padding ELSE padding]

\* lines 173, 177-209: what addWatermark computes from the metadata of the
\* primary image (0 for an unavailable dimension), the native size of the
\* watermark and the position argument
WatermarkGeometry(infoWidth, infoHeight, nativeWidth, nativeHeight, positionArg) ==
    LET position == IF IsDefined(positionArg) THEN positionArg[1] ELSE BottomRight
        imageWidth == OrDefault(infoWidth, DefaultDimension)
        imageHeight == OrDefault(infoHeight, DefaultDimension)
        watermarkSize == WatermarkSize(imageWidth)
        fitted == FitInside(nativeWidth, nativeHeight, watermarkSize)
        watermarkWidth == OrDefault(fitted[1], watermarkSize)
        watermarkHeight == OrDefault(fitted[2], watermarkSize)
        padding == Padding(imageWidth)
        isRight == EndsWith(position, <<"r","i","g","h","t">>)
        isBottom == StartsWith(position, <<"b","o","t","t","o","m">>)
    IN [imageWidth |-> imageWidth,
        imageHeight |-> imageHeight,
        watermarkSize |-> watermarkSize,
        watermarkWidth |-> watermarkWidth,
        watermarkHeight |-> watermarkHeight,
        padding |-> padding,
        left |-> IF isRight THEN imageWidth - watermarkWidth - padding ELSE padding,
        top |-> IF isBottom THEN imageHeight - watermarkHeight - padding ELSE padding]

NoGeometry ==
    [imageWidth |-> 0, imageHeight |-> 0, watermarkSize |-> 0,
     watermarkWidth |-> 0, watermarkHeight |-> 0, padding |-> 0,
     left |-> 0, top |-> 0]

\* lines 211-220: the watermark drawn over the image
Composite(imageBuffer, watermark, geom) ==
    [base |-> imageBuffer.base,
     marks |-> Append(imageBuffer.marks,
                      <<watermark, geom.left, geom.top,
                        geom.watermarkWidth, geom.watermarkHeight>>)]

---------------------------------------------------------------------------
(* resolvePath, lines 152-168 *)

ResolvePathIgnoreExisting(fsDirs, fsFiles, outputPath, name) ==
    IF ~Truthy(outputPath)
    THEN Resolve2(Cwd, name)
    ELSE LET resolvedPath == Resolve(outputPath[1])
         IN IF EndsWith(outputPath[1], <<"/">>)
            THEN Join(resolvedPath, name)
            ELSE resolvedPath

ResolvePathExtensionless(fsDirs, fsFiles, outputPath, name) ==
    IF ~Truthy(outputPath)
    THEN Resolve2(Cwd, name)
    ELSE LET resolvedPath == Resolve(outputPath[1])
         IN IF EndsWith(outputPath[1], <<"/">>) \/ ExtName(outputPath[1]) = <<>>
            THEN Join(resolvedPath, name)
            ELSE resolvedPath

ResolvePathNoSlashRule(fsDirs, fsFiles, outputPath, name) ==
    IF ~Truthy(outputPath)
    THEN Resolve2(Cwd, name)
    ELSE LET resolvedPath == Resolve(outputPath[1])
         IN IF ExtName(outputPath[1]) = <<>>
               /\ ExistsSync(fsDirs, fsFiles, resolvedPath)
            THEN Join(resolvedPath, name)
            ELSE resolvedPath

ResolvePathForceExtension(fsDirs, fsFiles, outputPath, name) ==
    IF ~Truthy(outputPath)
    THEN Resolve2(Cwd, name)
    ELSE LET resolvedPath == Resolve(outputPath[1])
         IN IF EndsWith(outputPath[1], <<"/">>)
               \/ (ExtName(outputPath[1]) = <<>>
                   /\ ExistsSync(fsDirs, fsFiles, resolvedPath))
            THEN Join(resolvedPath, name)
            ELSE SubSeq(resolvedPath, 1,
                        Len(resolvedPath) - Len(ExtName(resolvedPath)))
                   \o ExtName(name)

ResolvePath(fsDirs, fsFiles, outputPath, name) ==
    IF ~Truthy(outputPath)
    THEN Resolve2(Cwd, name)
    ELSE LET resolvedPath == Resolve(outputPath[1])
         IN IF EndsWith(outputPath[1], <<"/">>)
               \/ (ExtName(outputPath[1]) = <<>>
                   /\ ExistsSync(fsDirs, fsFiles, resolvedPath))
            THEN Join(resolvedPath, name)
            ELSE resolvedPath

---------------------------------------------------------------------------
(* saveImage, lines 119-150, one action per stretch of code between awaits *)

Calls == {1, 2}

WatermarkWantedAlways(fsDirs, fsFiles, watermarkPath) == Truthy(watermarkPath)

\* line 141: the watermark step is taken
WatermarkWanted(fsDirs, fsFiles, watermarkPath) ==
    /\ Truthy(watermarkPath)
    /\ ExistsSync(fsDirs, fsFiles, Resolve(watermarkPath[1]))

EnsureDirectorySkipped(fsDirs, fsFiles, dirPath) == "writeFile"

\* lines 146, 223-227: ensureDirectoryExists up to its await; the next
\* step is the mkdir when the directory is missing, else the write
EnsureDirectoryPc(fsDirs, fsFiles, dirPath) ==
    IF ~ExistsSync(fsDirs, fsFiles, dirPath) THEN "mkdir" ELSE "writeFile"

\* lines 119-141 (and 146 when the watermark step is skipped)
BeginSave(c, img, o) ==
    /\ pc[c] = "idle"
    /\ LET name == Filename(o.description, img.mimeType, now)
           path == ResolvePath(dirs, files, o.outputPath, name)
           marked == WatermarkWanted(dirs, files, o.watermarkPath)
       IN /\ image' = [image EXCEPT ![c] = img]
          /\ opts' = [opts EXCEPT ![c] = o]
          /\ filename' = [filename EXCEPT ![c] = name]
          /\ finalPath' = [finalPath EXCEPT ![c] = path]
          /\ buffer' = [buffer EXCEPT ![c] = BufferFrom(img.base64)]
          /\ pc' = [pc EXCEPT ![c] =
                      IF marked THEN "addWatermark"
                      ELSE EnsureDirectoryPc(dirs, files, Parent(path))]
    /\ UNCHANGED <<dirs, files, now, wmRan, wmGeom, result, error, nameOut,
                   geomOut, steps, req, proc, errOut>>

\* what sharp reports for the primary image: <<width, height>>, 0 for a
\* dimension it cannot tell; and for the watermark file: its native size
ImageInfos == {<<1000, 1000>>, <<0, 0>>, <<1000, 100>>, <<2, 2>>}
WatermarkInfos == {<<500, 500>>, <<300, 100>>}

\* lines 142, 170-221 and 146: addWatermark succeeds, the buffer becomes the
\* composited image
AddWatermarkOk(c) ==
    /\ pc[c] = "addWatermark"
    /\ LET wmPath == Resolve(opts[c].watermarkPath[1]) IN
       /\ IsFile(files, wmPath)
       /\ \E info \in ImageInfos, wm \in WatermarkInfos :
            LET geom == WatermarkGeometry(info[1], info[2], wm[1], wm[2],
                                          opts[c].watermarkPosition)
            IN /\ geom.watermarkSize > 0
               /\ wmGeom' = [wmGeom EXCEPT ![c] = geom]
               /\ buffer' = [buffer EXCEPT ![c] =
                               Composite(buffer[c], files[wmPath], geom)]
    /\ wmRan' = [wmRan EXCEPT ![c] = TRUE]
    /\ steps' = [steps EXCEPT ![c] = Append(@, "addWatermark")]
    /\ pc' = [pc EXCEPT ![c] = EnsureDirectoryPc(dirs, files, Parent(finalPath[c]))]
    /\ UNCHANGED <<dirs, files, now, image, opts, filename, finalPath,
                   result, error, nameOut, geomOut, req, proc, errOut>>

AddWatermarkFailAfterMkdir(c) ==
    /\ pc[c] = "addWatermark"
    /\ pc' = [pc EXCEPT ![c] = "failed"]
    /\ error' = [error EXCEPT ![c] = "addWatermark"]
    /\ wmRan' = [wmRan EXCEPT ![c] = TRUE]
    /\ steps' = [steps EXCEPT ![c] = Append(@, "addWatermark")]
    /\ dirs' = IF MkdirOk(files, Parent(finalPath[c]))
               THEN MkdirDirs(dirs, Parent(finalPath[c])) ELSE dirs
    /\ UNCHANGED <<files, now, image, opts, filename, finalPath, buffer,
                   wmGeom, result, nameOut, geomOut, req, proc, errOut>>

\* lines 142, 170-221: sharp cannot decode the primary image or the
\* watermark, cannot read the watermark path, or rejects a size of 0
AddWatermarkFail(c) ==
    /\ pc[c] = "addWatermark"
    /\ pc' = [pc EXCEPT ![c] = "failed"]
    /\ error' = [error EXCEPT ![c] = "addWatermark"]
    /\ wmRan' = [wmRan EXCEPT ![c] = TRUE]
    /\ steps' = [steps EXCEPT ![c] = Append(@, "addWatermark")]
    /\ UNCHANGED <<dirs, files, now, image, opts, filename, finalPath, buffer,
                   wmGeom, result, nameOut, geomOut, req, proc, errOut>>

MkdirNotRecursive(c) ==
    /\ pc[c] = "mkdir"
    /\ LET dirPath == Parent(finalPath[c]) IN
       IF MkdirOk(files, dirPath) /\ ~IsDir(dirs, dirPath)
       THEN /\ dirs' = MkdirDirs(dirs, dirPath)
            /\ pc' = [pc EXCEPT ![c] = "writeFile"]
            /\ UNCHANGED error
       ELSE /\ pc' = [pc EXCEPT ![c] = "failed"]
            /\ error' = [error EXCEPT ![c] = "mkdir"]
            /\ UNCHANGED dirs
    /\ steps' = [steps EXCEPT ![c] = Append(@, "mkdir")]
    /\ UNCHANGED <<files, now, image, opts, filename, finalPath, buffer, wmRan,
                   wmGeom, result, nameOut, geomOut, req, proc, errOut>>

\* line 225: mkdir(dirPath, {recursive: true})
Mkdir(c) ==
    /\ pc[c] = "mkdir"
    /\ LET dirPath == Parent(finalPath[c]) IN
       IF MkdirOk(files, dirPath)
       THEN /\ dirs' = MkdirDirs(dirs, dirPath)
            /\ pc' = [pc EXCEPT ![c] = "writeFile"]
            /\ UNCHANGED error
       ELSE /\ pc' = [pc EXCEPT ![c] = "failed"]
            /\ error' = [error EXCEPT ![c] = "mkdir"]
            /\ UNCHANGED dirs
    /\ steps' = [steps EXCEPT ![c] = Append(@, "mkdir")]
    /\ UNCHANGED <<files, now, image, opts, filename, finalPath, buffer, wmRan,
                   wmGeom, result, nameOut, geomOut, req, proc, errOut>>

MkdirFailIgnored(c) ==
    /\ pc[c] = "mkdir"
    /\ pc' = [pc EXCEPT ![c] = "writeFile"]
    /\ error' = [error EXCEPT ![c] = "mkdir"]
    /\ steps' = [steps EXCEPT ![c] = Append(@, "mkdir")]
    /\ UNCHANGED <<dirs, files, now, image, opts, filename, finalPath, buffer,
                   wmRan, wmGeom, result, nameOut, geomOut, req, proc, errOut>>

\* line 225: the mkdir is refused by the system (permissions, a read-only
\* or full volume), whatever the model's file system holds
MkdirFail(c) ==
    /\ pc[c] = "mkdir"
    /\ pc' = [pc EXCEPT ![c] = "failed"]
    /\ error' = [error EXCEPT ![c] = "mkdir"]
    /\ steps' = [steps EXCEPT ![c] = Append(@, "mkdir")]
    /\ UNCHANGED <<dirs, files, now, image, opts, filename, finalPath, buffer,
                   wmRan, wmGeom, result, nameOut, geomOut, req, proc, errOut>>

\* line 147: writeFile(finalPath, buffer)
WriteFile(c) ==
    /\ pc[c] = "writeFile"
    /\ IF WriteOk(dirs, finalPath[c])
       THEN /\ files' = WriteFiles(files, finalPath[c], buffer[c])
            /\ pc' = [pc EXCEPT ![c] = "written"]
            /\ UNCHANGED error
       ELSE /\ pc' = [pc EXCEPT ![c] = "failed"]
            /\ error' = [error EXCEPT ![c] = "writeFile"]
            /\ UNCHANGED files
    /\ steps' = [steps EXCEPT ![c] = Append(@, "writeFile")]
    /\ UNCHANGED <<dirs, now, image, opts, filename, finalPath, buffer, wmRan,
                   wmGeom, result, nameOut, geomOut, req, proc, errOut>>

\* line 149
Return(c) ==
    /\ pc[c] = "written"
    /\ pc' = [pc EXCEPT ![c] = "done"]
    /\ result' = [result EXCEPT ![c] = Some(finalPath[c])]
    /\ UNCHANGED <<dirs, files, now, image, opts, filename, finalPath, buffer,
                   wmRan, wmGeom, error, nameOut, geomOut, steps, req, proc, errOut>>

---------------------------------------------------------------------------
(* The inputs and the initial states *)

\* Paths of the initial file systems
RootDir == <<"/">>
OutDir == <<"/","w","/","o","u","t">>
VersionDir == <<"/","w","/","v","1",".","2">>
LogoFile == <<"/","w","/","l","o","g","o",".","p","n","g">>
NoteFile == <<"/","w","/","n","o","t","e">>
OldResultFile == <<"/","w","/","o","u","t","/","r","e","s","u","l","t",".","p","n","g">>

\* A working directory holding a watermark image and an extension-less
\* file; then the same with output directories and an earlier result
BareFileSystem ==
    [dirs |-> {RootDir, Cwd},
     files |-> (LogoFile :> Raw(<<7, 7>>)) @@ (NoteFile :> Raw(<<8>>))]
UsedFileSystem ==
    [dirs |-> {RootDir, Cwd, OutDir, VersionDir},
     files |-> (LogoFile :> Raw(<<7, 7>>)) @@ (NoteFile :> Raw(<<8>>))
                 @@ (OldResultFile :> Raw(<<1>>))]
InitialFileSystems == {BareFileSystem, UsedFileSystem}

\* the clock at the call: start of the epoch, and late in a second
StartTimes == {0, 61999}

GIF == <<"i","m","a","g","e","/","g","i","f">>

Images ==
    [base64 : {<<"A","A","E","C">>, <<"/","w","=","=">>},
     mimeType : {JPEG, GIF}]

OutputPaths ==
    {Undefined,
     Some(<<>>),
     Some(<<"o","u","t","/">>),
     Some(<<"o","u","t">>),
     Some(<<".","/","o","u","t","/","r","e","s","u","l","t",".","p","n","g">>),
     Some(<<"v","1",".","2">>),
     Some(<<"v","1",".","2","/">>),
     Some(<<"n","o","t","e">>),
     Some(<<"n","o","t","e","/">>),
     Some(<<"/","a","b","s","/","d","e","e","p","/","x",".","w","e","b","p">>),
     Some(<<".",".">>)}

Descriptions ==
    {Undefined,
     Some(<<"a"," ","c","a","t","!">>),
     Some(<<"?","!">>)}

WatermarkPaths ==
    {Undefined,
     Some(<<"l","o","g","o",".","p","n","g">>),
     Some(<<"m","i","s","s","i","n","g",".","p","n","g">>),
     Some(<<"o","u","t">>)}

Options ==
    [outputPath : OutputPaths,
     description : Descriptions,
     watermarkPath : WatermarkPaths,
     watermarkPosition : {Undefined, Some(TopLeft)}]

NoImage == [base64 |-> <<>>, mimeType |-> <<>>]
NoOptions ==
    [outputPath |-> Undefined, description |-> Undefined,
     watermarkPath |-> Undefined, watermarkPosition |-> Undefined]
NoName ==
    [done |-> FALSE, description |-> Undefined, mimeType |-> <<>>, ms |-> 0,
     hint |-> <<>>, filename |-> <<>>, path |-> <<>>]
NoGeom ==
    [done |-> FALSE, infoWidth |-> 0, infoHeight |-> 0, nativeWidth |-> 0,
     nativeHeight |-> 0, position |-> Undefined, geom |-> NoGeometry]

\* no request is being handled; no process is being started
NoErrOut == [step |-> 0]
NoRequest == [pc |-> "none"]
NoProcess == [pc |-> "none"]

InitCalls ==
    /\ pc = [c \in Calls |-> "idle"]
    /\ image = [c \in Calls |-> NoImage]
    /\ opts = [c \in Calls |-> NoOptions]
    /\ filename = [c \in Calls |-> <<>>]
    /\ finalPath = [c \in Calls |-> <<>>]
    /\ buffer = [c \in Calls |-> Raw(<<>>)]
    /\ wmRan = [c \in Calls |-> FALSE]
    /\ wmGeom = [c \in Calls |-> NoGeometry]
    /\ result = [c \in Calls |-> Undefined]
    /\ error = [c \in Calls |-> "none"]
    /\ steps = [c \in Calls |-> <<>>]

Init ==
    /\ \E fs \in InitialFileSystems : dirs = fs.dirs /\ files = fs.files
    /\ now \in StartTimes
    /\ InitCalls
    /\ nameOut = NoName
    /\ geomOut = NoGeom
    /\ req = NoRequest
    /\ proc = NoProcess
    /\ errOut = NoErrOut

\* one saveImage call, run to its end
Next ==
    \/ \E img \in Images, o \in Options : BeginSave(1, img, o)
    \/ AddWatermarkOk(1)
    \/ AddWatermarkFail(1)
    \/ Mkdir(1)
    \/ MkdirFail(1)
    \/ WriteFile(1)
    \/ Return(1)

Spec == Init /\ [][Next]_vars

---------------------------------------------------------------------------
(* Filename derivation alone, over many descriptions, encodings and times *)

\* the first n characters of pattern repeated
Repeat(pattern, n) == [i \in 1..n |-> pattern[((i - 1) % Len(pattern)) + 1]]

\* "U+D83D" and "U+DE00" stand for the two UTF-16 code units of an emoji
DescriptionPatterns ==
    {<<"a">>,
     <<"a", " ">>,
     <<"!", "b", "?">>,
     <<" ", "\t", "Z", "9">>,
     <<"!">>,
     <<"U+D83D", "U+DE00">>,
     <<" ">>,
     <<"x", "_", "-", ".", "/", "y">>}

MaxDescLen == 53

NameDescriptions ==
    {Undefined}
      \cup {Some(Repeat(p, n)) : p \in DescriptionPatterns, n \in 0..MaxDescLen}

MimeTypes ==
    {PNG, JPEG, WEBP, GIF, <<>>,
     <<"I","M","A","G","E","/","P","N","G">>,
     <<"i","m","a","g","e","/","j","p","g">>}

\* output paths that select the directory mode of resolvePath: with the
\* trailing separator, or an existing directory without extension
DirectoryHints ==
    {<<"o","u","t","/">>,
     <<"/","w","/","a","/",".",".","/","p","i","c","s","/">>,
     <<".">>}

InitName ==
    /\ dirs = BareFileSystem.dirs
    /\ files = BareFileSystem.files
    /\ now = 0
    /\ InitCalls
    /\ nameOut \in [done : {FALSE}, description : NameDescriptions,
                    mimeType : MimeTypes, ms : StartTimes,
                    hint : DirectoryHints, filename : {<<>>}, path : {<<>>}]
    /\ geomOut = NoGeom
    /\ req = NoRequest
    /\ proc = NoProcess
    /\ errOut = NoErrOut

\* lines 122-135
DeriveFilename ==
    /\ ~nameOut.done
    /\ LET name == Filename(nameOut.description, nameOut.mimeType, nameOut.ms)
       IN nameOut' = [nameOut EXCEPT
                        !.done = TRUE,
                        !.filename = name,
                        !.path = ResolvePath(dirs, files, Some(nameOut.hint), name)]
    /\ UNCHANGED <<dirs, files, now, pc, image, opts, filename, finalPath,
                   buffer, wmRan, wmGeom, result, error, geomOut, steps, req, proc, errOut>>

NextName == DeriveFilename

SpecName == InitName /\ [][NextName]_vars

---------------------------------------------------------------------------
(* Watermark geometry alone, over many image and watermark sizes *)

MaxSmallWidth == 40

\* 0 is a dimension sharp does not report
InfoWidths == 0..MaxSmallWidth \cup {100, 333, 1000, 1024}
InfoHeights == {0, 1, 50, 1000}
NativeSizes == {<<500, 500>>, <<300, 100>>, <<100, 300>>, <<8, 8>>}

InitGeom ==
    /\ dirs = BareFileSystem.dirs
    /\ files = BareFileSystem.files
    /\ now = 0
    /\ InitCalls
    /\ nameOut = NoName
    /\ \E w \in InfoWidths, h \in InfoHeights, n \in NativeSizes,
          p \in {Undefined} \cup {Some(q) : q \in Positions} :
         geomOut = [done |-> FALSE, infoWidth |-> w, infoHeight |-> h,
                    nativeWidth |-> n[1], nativeHeight |-> n[2],
                    position |-> p, geom |-> NoGeometry]
    /\ req = NoRequest
    /\ proc = NoProcess
    /\ errOut = NoErrOut

\* lines 177-209
ComputeGeometry ==
    /\ ~geomOut.done
    /\ geomOut' = [geomOut EXCEPT
                     !.done = TRUE,
                     !.geom = WatermarkGeometry(geomOut.infoWidth, geomOut.infoHeight,
                                                geomOut.nativeWidth, geomOut.nativeHeight,
                                                geomOut.position)]
    /\ UNCHANGED <<dirs, files, now, pc, image, opts, filename, finalPath,
                   buffer, wmRan, wmGeom, result, error, nameOut, steps, req, proc, errOut>>

NextGeom == ComputeGeometry

SpecGeom == InitGeom /\ [][NextGeom]_vars

---------------------------------------------------------------------------
(* Properties of saveImage *)

\* C1: whenever saveImage returns, the returned string is an absolute path
\* and the file at exactly that path holds the final bytes of the call: the
\* decoded payload, with the watermark composited on it if and only if the
\* watermark step ran.
ReturnedPathHoldsFinalBytes ==
    \A c \in Calls :
        pc[c] = "done" =>
            /\ IsDefined(result[c])
            /\ IsAbsolute(result[c][1])
            /\ IsFile(files, result[c][1])
            /\ ~IsDir(dirs, result[c][1])
            /\ LET written == files[result[c][1]] IN
               /\ written.base = Base64Decode(image[c].base64)
               /\ IF wmRan[c]
                  THEN /\ Len(written.marks) = 1
                       /\ SubSeq(written.marks[1], 2, 5)
                            = <<wmGeom[c].left, wmGeom[c].top,
                                wmGeom[c].watermarkWidth, wmGeom[c].watermarkHeight>>
                  ELSE written.marks = <<>>

\* a call returned after the watermark step ran
ReturnedWatermarkedFile ==
    /\ pc[1] = "done"
    /\ wmRan[1]
    /\ IsFile(files, result[1][1])
    /\ Len(files[result[1][1]].base) = 3

\* C2: when the description is absent or its sanitized form is empty, the
\* filename is "image", '_', the timestamp and the extension.
EmptySanitizedFallsBackToImage ==
    (/\ nameOut.done
     /\ \/ ~IsDefined(nameOut.description)
        \/ SliceTo(Sanitized(nameOut.description[1]), MaxDescriptionLength) = <<>>)
        => nameOut.filename
             = IMAGE \o <<"_">> \o Timestamp(nameOut.ms) \o Extension(nameOut.mimeType)

\* C3: when the sanitized description is longer than 50 characters, the
\* filename is its first 50 characters, then '_', the 19 characters of the
\* timestamp and the extension.
LongDescriptionTruncatedTo50 ==
    (/\ nameOut.done
     /\ IsDefined(nameOut.description)
     /\ Len(Sanitized(nameOut.description[1])) > 50)
        => LET clean == Sanitized(nameOut.description[1])
               name == nameOut.filename
           IN /\ Len(name) >= 70
              /\ SubSeq(name, 1, 50) = SubSeq(clean, 1, 50)
              /\ name[51] = "_"
              /\ SubSeq(name, 52, 70) = Timestamp(nameOut.ms)
              /\ SubSeq(name, 71, Len(name)) = ExtName(name)

\* a filename derived from a description whose sanitized form has more than
\* 50 characters, underscores for whitespace among them
TruncatedLongDescription ==
    /\ nameOut.done
    /\ IsDefined(nameOut.description)
    /\ Len(Sanitized(nameOut.description[1])) > 50
    /\ nameOut.filename[50] = "_"
    /\ nameOut.filename[51] = "_"
    /\ Len(nameOut.filename) = 74

\* C4: the extension of the filename is a function of the MIME type alone:
\* .png for image/png, .jpg for image/jpeg, .webp for image/webp, and .png
\* for every other value.
ExtensionFollowsMimeType ==
    nameOut.done =>
        ExtName(nameOut.filename)
          = CASE nameOut.mimeType = PNG -> <<".","p","n","g">>
              [] nameOut.mimeType = JPEG -> <<".","j","p","g">>
              [] nameOut.mimeType = WEBP -> <<".","w","e","b","p">>
              [] OTHER -> <<".","p","n","g">>

\* a filename derived for an encoding that is none of the three
UnknownMimeTypeGotPng ==
    /\ nameOut.done
    /\ nameOut.mimeType = <<"I","M","A","G","E","/","P","N","G">>
    /\ ExtName(nameOut.filename) = <<".","p","n","g">>

\* the step in which call c starts: lines 119-141
Called(c) == pc[c] = "idle" /\ pc'[c] # "idle"

\* the output hint of call c is a non-empty string without trailing separator
PlainHint(hint) == Truthy(hint) /\ ~EndsWith(hint[1], <<"/">>)

LastSegment(p) == Split(p)[Len(Split(p))]

\* C5: when outputPath ends in '/', the path is the derived filename inside
\* the resolved outputPath, and when the call returns that directory exists,
\* whether or not it existed before, and holds the file.
TrailingSlashIsDirectory ==
    \A c \in Calls :
        LET hint == opts[c].outputPath IN
        (pc[c] # "idle" /\ Truthy(hint) /\ EndsWith(hint[1], <<"/">>)) =>
            /\ Parent(finalPath[c]) = Resolve(hint[1])
            /\ LastSegment(finalPath[c]) = filename[c]
            /\ pc[c] = "done" =>
                 /\ result[c] = Some(finalPath[c])
                 /\ IsDir(dirs, Resolve(hint[1]))
                 /\ IsFile(files, finalPath[c])

\* a call returned for "out/" from the file system that had no /w/out
ReturnedIntoCreatedDirectory ==
    /\ pc[1] = "done"
    /\ opts[1].outputPath = Some(<<"o","u","t","/">>)
    /\ VersionDir \notin dirs
    /\ IsDir(dirs, OutDir)
    /\ Parent(result[1][1]) = OutDir

\* C6: when outputPath has no trailing separator and no extension and is a
\* directory on disk when the call starts, the path is the derived filename
\* inside it, not outputPath itself.
ExistingDirectoryGetsFilename ==
    [][\A c \in Calls :
        LET hint == opts'[c].outputPath IN
        (/\ Called(c)
         /\ PlainHint(hint)
         /\ ExtName(hint[1]) = <<>>
         /\ IsDir(dirs, Resolve(hint[1])))
            => /\ finalPath'[c] # Resolve(hint[1])
               /\ Parent(finalPath'[c]) = Resolve(hint[1])
               /\ LastSegment(finalPath'[c]) = filename'[c]]_vars

\* a call returned for "out" from the file system that had the directory
ReturnedIntoExistingDirectory ==
    /\ pc[1] = "done"
    /\ opts[1].outputPath = Some(<<"o","u","t">>)
    /\ IsDir(dirs, OutDir)
    /\ Parent(result[1][1]) = OutDir
    /\ IsFile(files, result[1][1])

\* C7: when outputPath has an extension and no trailing separator, the path
\* is the resolved outputPath itself: the derived filename is not used, the
\* extension of outputPath is kept, and the parent directory exists before
\* the write.
FileHintIsTarget ==
    \A c \in Calls :
        LET hint == opts[c].outputPath IN
        (pc[c] # "idle" /\ PlainHint(hint) /\ ExtName(hint[1]) # <<>>) =>
            /\ finalPath[c] = Resolve(hint[1])
            /\ LastSegment(finalPath[c]) = LastSegment(hint[1])
            /\ ExtName(finalPath[c]) = ExtName(hint[1])
            /\ pc[c] = "writeFile" => ExistsSync(dirs, files, Parent(finalPath[c]))
            /\ pc[c] \in {"written", "done"} =>
                 /\ IsDir(dirs, Parent(finalPath[c]))
                 /\ IsFile(files, finalPath[c])

\* a call returned for "./out/result.png" with a JPEG payload from the file
\* system that had no /w/out
ReturnedFileHintInNewDirectory ==
    /\ pc[1] = "done"
    /\ opts[1].outputPath = Some(<<".","/","o","u","t","/","r","e","s","u","l","t",".","p","n","g">>)
    /\ image[1].mimeType = JPEG
    /\ VersionDir \notin dirs
    /\ result[1] = Some(OldResultFile)
    /\ IsDir(dirs, OutDir)
    /\ IsFile(files, OldResultFile)

\* C8: when outputPath has no trailing separator and no extension and does
\* not exist when the call starts, the path is the resolved outputPath
\* itself: the bytes go to a file of exactly that name, and no directory of
\* that name is created.
MissingPlainHintIsFile ==
    [][\A c \in Calls :
        LET hint == opts'[c].outputPath IN
        /\ (/\ Called(c)
            /\ PlainHint(hint)
            /\ ExtName(hint[1]) = <<>>
            /\ ~ExistsSync(dirs, files, Resolve(hint[1])))
               => finalPath'[c] = Resolve(hint[1])
        /\ (/\ pc'[c] # "idle"
            /\ PlainHint(hint)
            /\ ExtName(hint[1]) = <<>>
            /\ finalPath'[c] = Resolve(hint[1]))
               => /\ ExtName(finalPath'[c]) = <<>>
                  /\ ~IsDir(dirs', finalPath'[c])
                  /\ pc'[c] \in {"written", "done"} =>
                       /\ IsFile(files', finalPath'[c])
                       /\ files'[finalPath'[c]] = buffer'[c]]_vars

\* a call returned for "out" from the file system that had no /w/out
ReturnedPlainHintAsFile ==
    /\ pc[1] = "done"
    /\ opts[1].outputPath = Some(<<"o","u","t">>)
    /\ result[1] = Some(OutDir)
    /\ IsFile(files, OutDir)
    /\ ~IsDir(dirs, OutDir)

\* C9: the watermark step is taken exactly when watermarkPath is supplied
\* and exists on disk when it is checked; in every other case the call
\* raises no watermark error and the file it writes is the decoded payload.
WatermarkOnlyWhenPathExists ==
    [][\A c \in Calls :
        LET wp == opts'[c].watermarkPath IN
        /\ Called(c) =>
             (pc'[c] = "addWatermark"
                <=> (IsDefined(wp) /\ wp[1] # <<>>
                     /\ ExistsSync(dirs, files, Resolve(wp[1]))))
        /\ (wmRan'[c] /\ ~wmRan[c]) => pc[c] = "addWatermark"
        /\ (~wmRan'[c] /\ pc'[c] \notin {"idle", "addWatermark"}) =>
             /\ error'[c] \in {"none", "mkdir", "writeFile"}
             /\ buffer'[c] = Raw(Base64Decode(image'[c].base64))
             /\ pc'[c] \in {"written", "done"} =>
                  files'[finalPath'[c]] = Raw(Base64Decode(image'[c].base64))]_vars

\* a call returned although its watermarkPath names a missing file
ReturnedWithMissingWatermark ==
    /\ pc[1] = "done"
    /\ opts[1].watermarkPath = Some(<<"m","i","s","s","i","n","g",".","p","n","g">>)
    /\ ~wmRan[1]
    /\ error[1] = "none"
    /\ files[result[1][1]] = Raw(Base64Decode(image[1].base64))

---------------------------------------------------------------------------
(* Properties of addWatermark *)

\* C10: for every image width W the bounding box of the watermark is a
\* square of side floor(W * 0.25) and the padding is floor(W * 0.03), both
\* from the width alone, on the vertical axis too; 250 and 30 for W = 1000;
\* a dimension sharp does not report counts as 1024.
BoxAndPaddingFromWidth ==
    geomOut.done =>
        LET g == geomOut.geom
            W == g.imageWidth
            H == g.imageHeight
            onTop == geomOut.position \in {Some(TopLeft), Some(TopRight)}
        IN /\ W = (IF geomOut.infoWidth = 0 THEN 1024 ELSE geomOut.infoWidth)
           /\ H = (IF geomOut.infoHeight = 0 THEN 1024 ELSE geomOut.infoHeight)
           /\ 4 * g.watermarkSize <= W
           /\ W < 4 * (g.watermarkSize + 1)
           /\ 100 * g.padding <= 3 * W
           /\ 3 * W < 100 * (g.padding + 1)
           /\ W = 1000 => (g.watermarkSize = 250 /\ g.padding = 30)
           /\ g.watermarkSize > 0 =>
                (g.watermarkWidth <= g.watermarkSize
                   /\ g.watermarkHeight <= g.watermarkSize)
           /\ g.top = (IF onTop THEN g.padding
                       ELSE H - g.watermarkHeight - g.padding)

\* the geometry of a 1000 x 50 image with a watermark in a top corner
ComputedForWideImage ==
    /\ geomOut.done
    /\ geomOut.infoWidth = 1000
    /\ geomOut.infoHeight = 50
    /\ geomOut.position = Some(TopRight)
    /\ geomOut.geom.watermarkSize = 250
    /\ geomOut.geom.padding = 30
    /\ geomOut.geom.top = 30

\* C24: for every size of the primary image and every position, the
\* rectangle the watermark is composited on lies inside the primary image:
\* 0 <= left, 0 <= top, left + watermarkWidth <= imageWidth and
\* top + watermarkHeight <= imageHeight.
WatermarkInsideImage ==
    (geomOut.done /\ geomOut.geom.watermarkSize > 0) =>
        LET g == geomOut.geom
        IN /\ 0 <= g.left
           /\ 0 <= g.top
           /\ g.left + g.watermarkWidth <= g.imageWidth
           /\ g.top + g.watermarkHeight <= g.imageHeight

\* C25: for every description, MIME type and timestamp, the derived
\* filename holds only characters of [A-Za-z0-9_.-], so no path separator,
\* and is not empty; so for an outputPath in directory mode the path
\* saveImage works on is the resolved output directory followed by that
\* one segment: a direct child of the directory.
FilenameIsOneSafeSegment ==
    nameOut.done =>
        /\ nameOut.filename # <<>>
        /\ \A i \in DOMAIN nameOut.filename :
              /\ nameOut.filename[i]
                   \in LowerCase \cup UpperCase \cup Digits \cup {"_", ".", "-"}
              /\ nameOut.filename[i] # "/"
        /\ Split(nameOut.path)
             = Append(Split(Resolve(nameOut.hint)), nameOut.filename)
        /\ Parent(nameOut.path) = Resolve(nameOut.hint)

\* a description made of separators, dots and letters, for a directory
\* given with '..' in it
DerivedFromDescriptionWithSeparators ==
    /\ nameOut.done
    /\ nameOut.description = Some(<<"x", "_", "-", ".", "/", "y", "x", "_", "-", ".", "/", "y">>)
    /\ nameOut.hint = <<"/","w","/","a","/",".",".","/","p","i","c","s","/">>
    /\ SubSeq(nameOut.filename, 1, 5) = <<"x","y","x","y","_">>
    /\ Parent(nameOut.path) = <<"/","w","/","p","i","c","s">>

\* C11: the offsets handed to the compositor are: left = padding for the
\* two left positions and imageWidth - watermarkWidth - padding for the two
\* right ones; top = padding for the two top positions and imageHeight -
\* watermarkHeight - padding for the two bottom ones, where watermarkWidth
\* and watermarkHeight are the dimensions of the watermark after its resize
\* into the box; without a position the bottom-right offsets are used.
OffsetsFollowPosition ==
    (geomOut.done /\ geomOut.geom.watermarkSize > 0) =>
        LET g == geomOut.geom
            resized == FitInside(geomOut.nativeWidth, geomOut.nativeHeight,
                                 g.watermarkSize)
            position == geomOut.position
            onLeft == position \in {Some(TopLeft), Some(BottomLeft)}
            onRight == position \in {Some(TopRight), Some(BottomRight), Undefined}
            onTop == position \in {Some(TopLeft), Some(TopRight)}
            onBottom == position \in {Some(BottomLeft), Some(BottomRight), Undefined}
        IN /\ onLeft \/ onRight
           /\ onTop \/ onBottom
           /\ onLeft => g.left = g.padding
           /\ onRight => g.left = g.imageWidth - resized[1] - g.padding
           /\ onTop => g.top = g.padding
           /\ onBottom => g.top = g.imageHeight - resized[2] - g.padding

\* a 300 x 100 watermark, resized to 250 x 83, in the bottom-left corner of
\* a 1000 x 1000 image
ComputedBottomLeftOffsets ==
    /\ geomOut.done
    /\ geomOut.position = Some(BottomLeft)
    /\ geomOut.infoWidth = 1000
    /\ geomOut.infoHeight = 1000
    /\ geomOut.nativeWidth = 300
    /\ geomOut.nativeHeight = 100
    /\ geomOut.geom.left = 30
    /\ geomOut.geom.top = 887

---------------------------------------------------------------------------
(* Failures and overwriting in saveImage *)

\* C12: when the watermark step fails (the watermark or the primary image
\* cannot be decoded), saveImage fails with that error, the compositor is
\* not run again, no path is returned, and the call has written no file and
\* created no directory: the file system is as it was before the call.
WatermarkFailureStopsSave ==
    [][\A c \in {1} :
         /\ error'[c] = "addWatermark" =>
               /\ pc'[c] = "failed"
               /\ result'[c] = Undefined
               /\ steps'[c] = <<"addWatermark">>
               /\ \E fs \in InitialFileSystems :
                     dirs' = fs.dirs /\ files' = fs.files
         /\ (pc[c] = "addWatermark" /\ pc'[c] = "failed") =>
               /\ error'[c] = "addWatermark"
               /\ dirs' = dirs
               /\ files' = files
         /\ pc[c] = "failed" => UNCHANGED <<pc, steps, dirs, files, result>>]_vars

\* the watermark step failed for a call whose output directory is missing,
\* and the directory is still missing
FailedAtWatermarkBeforeMkdir ==
    /\ pc[1] = "failed"
    /\ error[1] = "addWatermark"
    /\ steps[1] = <<"addWatermark">>
    /\ opts[1].outputPath = Some(<<"o","u","t","/">>)
    /\ ~ExistsSync(dirs, files, OutDir)
    /\ result[1] = Undefined

\* C13: when a regular file already exists at the resolved path, the write
\* is not refused because of it, goes to that same path, and replaces the
\* whole content: afterwards the file holds exactly the bytes of this call
\* (nothing of the old content), every other file is untouched, and the
\* path returned is that path.
ExistingFileIsReplaced ==
    [][\A c \in {1} :
         /\ (pc[c] = "writeFile" /\ IsFile(files, finalPath[c])) =>
               /\ WriteOk(dirs, finalPath[c])
               /\ pc'[c] = "written" =>
                     /\ error'[c] = "none"
                     /\ finalPath'[c] = finalPath[c]
                     /\ DOMAIN files' = DOMAIN files
                     /\ files'[finalPath[c]] = buffer[c]
                     /\ \A q \in DOMAIN files \ {finalPath[c]} :
                           files'[q] = files[q]
         /\ pc[c] = "written" =>
               /\ result'[c] = Some(finalPath[c])
               /\ files'[finalPath[c]] = buffer[c]]_vars

\* the call returned the path of the file that was there before, and the
\* file now holds the new bytes only
ReturnedOverOldFile ==
    /\ pc[1] = "done"
    /\ VersionDir \in dirs
    /\ result[1] = Some(OldResultFile)
    /\ files[OldResultFile] = buffer[1]
    /\ buffer[1].base = <<0, 1, 2>>

\* the number of times saveImage started the operation op in call c
Started(c, op) == Cardinality({i \in DOMAIN steps[c] : steps[c][i] = op})

\* C14: when the creation of the parent directory fails, saveImage rejects
\* with that error: the write of the file is never started, the mkdir is
\* not tried a second time, no path is returned and no file is written.
MkdirFailureStopsSave ==
    [][\A c \in {1} :
         /\ error'[c] = "mkdir" =>
               /\ pc'[c] = "failed"
               /\ result'[c] = Undefined
               /\ Started(c, "mkdir")' = 1
               /\ Started(c, "writeFile")' = 0
         /\ (pc[c] = "mkdir" /\ pc'[c] = "failed") =>
               /\ error'[c] = "mkdir"
               /\ files' = files
         /\ pc[c] = "failed" => UNCHANGED <<pc, steps, dirs, files, result>>]_vars

\* the mkdir failed after the watermark was drawn; nothing is at the
\* resolved path and no path was returned
FailedAtMkdir ==
    /\ pc[1] = "failed"
    /\ error[1] = "mkdir"
    /\ steps[1] = <<"addWatermark", "mkdir">>
    /\ ~ExistsSync(dirs, files, finalPath[1])
    /\ ~ExistsSync(dirs, files, Parent(finalPath[1]))
    /\ result[1] = Undefined

---------------------------------------------------------------------------
(* The order of the steps of saveImage *)

\* the awaited operations in the order of the code, each at most once
StepOrders ==
    {<<>>, <<"addWatermark">>, <<"mkdir">>, <<"writeFile">>,
     <<"addWatermark", "mkdir">>, <<"addWatermark", "writeFile">>,
     <<"mkdir", "writeFile">>, <<"addWatermark", "mkdir", "writeFile">>}

\* one step of call c keeps the order: the filename, the path and the
\* decoded bytes are there before anything is awaited and the name and the
\* path never change afterwards; the watermark comes before the mkdir, the
\* mkdir before the write; a path is returned only by a call whose write
\* completed, and it is the resolved path, holding the bytes of the call
OrderedStep(c) ==
    /\ (pc[c] = "idle" /\ pc'[c] # "idle") =>
          /\ filename'[c] = Filename(opts'[c].description, image'[c].mimeType, now)
          /\ finalPath'[c] = ResolvePath(dirs, files, opts'[c].outputPath, filename'[c])
          /\ buffer'[c] = BufferFrom(image'[c].base64)
          /\ pc'[c] \in {"addWatermark", "mkdir", "writeFile"}
          /\ steps'[c] = <<>>
    /\ pc[c] # "idle" =>
          /\ filename'[c] = filename[c]
          /\ finalPath'[c] = finalPath[c]
          /\ buffer'[c] # buffer[c] => pc[c] = "addWatermark"
    /\ pc[c] = "addWatermark" =>
          pc'[c] \in {"addWatermark", "mkdir", "writeFile", "failed"}
    /\ pc[c] = "mkdir" => pc'[c] \in {"mkdir", "writeFile", "failed"}
    /\ pc[c] = "writeFile" => pc'[c] \in {"writeFile", "written", "failed"}
    /\ pc[c] = "written" => pc'[c] \in {"written", "done"}
    /\ pc[c] \in {"done", "failed"} => pc'[c] = pc[c]
    /\ steps'[c] \in StepOrders
    /\ files' # files => (pc[c] = "writeFile" /\ pc'[c] = "written")
    /\ dirs' # dirs => (pc[c] = "mkdir" /\ pc'[c] = "writeFile")
    /\ IsDefined(result'[c]) =>
          /\ pc'[c] = "done"
          /\ steps'[c][Len(steps'[c])] = "writeFile"
          /\ result'[c] = Some(finalPath'[c])
          /\ IsFile(files', finalPath'[c])
          /\ files'[finalPath'[c]] = buffer'[c]

---------------------------------------------------------------------------
(* Two overlapping calls of saveImage on one ImageService: the steps of the
   two calls interleave at the awaits, and the clock advances in between *)

\* the clock advances at most this many seconds during a run
MaxTicks == 1

ConcImages ==
    [base64 : {<<"A","A","E","C">>, <<"/","w","=","=">>}, mimeType : {JPEG}]

ConcOptions ==
    [outputPath : {Some(<<"o","u","t","/">>),
                   Some(<<".","/","o","u","t","/","r","e","s","u","l","t",".","p","n","g">>)},
     description : {Some(<<"a"," ","c","a","t","!">>)},
     watermarkPath : {Undefined, Some(<<"l","o","g","o",".","p","n","g">>)},
     watermarkPosition : {Undefined}]

InitConc ==
    /\ dirs = BareFileSystem.dirs
    /\ files = BareFileSystem.files
    /\ now = 0
    /\ InitCalls
    /\ nameOut = NoName
    /\ geomOut = NoGeom
    /\ req = NoRequest
    /\ proc = NoProcess
    /\ errOut = NoErrOut

\* line 123: new Date() reads a clock that other code does not control
Tick ==
    /\ now < 1000 * MaxTicks
    /\ now' = now + 1000
    /\ UNCHANGED <<dirs, files, pc, image, opts, filename, finalPath, buffer,
                   wmRan, wmGeom, result, error, nameOut, geomOut, steps, req,
                   proc, errOut>>

NextConc ==
    \/ \E c \in Calls, img \in ConcImages, o \in ConcOptions : BeginSave(c, img, o)
    \/ \E c \in Calls : AddWatermarkOk(c)
    \/ \E c \in Calls : AddWatermarkFail(c)
    \/ \E c \in Calls : Mkdir(c)
    \/ \E c \in Calls : WriteFile(c)
    \/ \E c \in Calls : Return(c)
    \/ Tick

SpecConc == InitConc /\ [][NextConc]_vars

\* C15: for every interleaving of two overlapping calls, once both have
\* returned, the file at the path each call returned holds the bytes that
\* call wrote, also when both calls have the same description, encoding
\* and output directory within the same second.
EachReturnedPathHoldsOwnBytes ==
    (\A c \in Calls : pc[c] = "done") =>
        \A c \in Calls : files[result[c][1]] = buffer[c]

\* C20: when a call issues its mkdir for a parent directory that the other
\* call has created since this call saw it missing, the mkdir succeeds and
\* changes nothing; every mkdir of the two calls succeeds, the directory
\* exists afterwards, and no call fails at the mkdir.
RacingMkdirsBothSucceed ==
    [][\A c \in Calls :
         (pc[c] = "mkdir" /\ steps'[c] # steps[c]) =>
             /\ pc'[c] = "writeFile"
             /\ error'[c] = "none"
             /\ IsDir(dirs', Parent(finalPath[c]))
             /\ IsDir(dirs, Parent(finalPath[c])) => dirs' = dirs]_vars

\* both calls saw /w/out missing, both issued the mkdir, both returned
BothCreatedSameDirectory ==
    /\ \A c \in Calls : pc[c] = "done" /\ Started(c, "mkdir") = 1
    /\ Parent(finalPath[1]) = OutDir
    /\ Parent(finalPath[2]) = OutDir
    /\ IsDir(dirs, OutDir)

---------------------------------------------------------------------------
(* Errors, src/utils/errors.ts.  A message is a record: the codes of the
   'MCP error <code>: ' prefixes at its front, its text, and the path the
   text ends with, if any.  The data of an McpError is Undefined or
   Some(set of <<key, value>> pairs), every value a message. *)

InvalidParams == -32602
InternalError == -32603

Text(t) == [prefixes |-> <<>>, text |-> t, path |-> <<>>]
TextWithPath(t, p) == [prefixes |-> <<>>, text |-> t, path |-> p]

\* new Error(message), and errors of other classes (name # 'Error')
NewError(message) == [kind |-> "Error", name |-> "Error", message |-> message]
NamedError(name, message) == [kind |-> "Error", name |-> name, message |-> message]

\* new McpError(code, message, data): the SDK puts 'MCP error <code>: '
\* before the message
McpError(code, message, data) ==
    [kind |-> "McpError", name |-> "McpError", code |-> code,
     message |-> [message EXCEPT !.prefixes = <<code>> \o @],
     data |-> data]

\* a thrown value that is no Error object, by its String(...) form
ThrownValue(v) == [kind |-> "value", name |-> "", message |-> Text(v)]

NoError == [kind |-> "none"]

\* a variant that leaves the prefix in the message
StripMcpPrefixNot(err) == err.message

\* lines 7-10
StripMcpPrefix(err) ==
    IF err.message.prefixes # <<>> /\ Head(err.message.prefixes) = err.code
    THEN [err.message EXCEPT !.prefixes = Tail(@)]
    ELSE err.message

\* lines 31-49; existing is Undefined or Some(record), extra likewise
MergeData(existing, extra) ==
    IF ~IsDefined(extra) \/ extra[1] = {}
    THEN existing
    ELSE LET base == IF IsDefined(existing) THEN existing[1] ELSE {}
         IN Some({d \in base : \A e \in extra[1] : e[1] # d[1]} \cup extra[1])

EnsureMcpErrorAlwaysFallback(err, fallbackCode, fallbackMessage, extraData) ==
    McpError(fallbackCode, fallbackMessage,
             Some((IF IsDefined(extraData) THEN extraData[1] ELSE {})
                    \cup {<<"cause", err.message>>}))

\* lines 51-84, for errors that are McpError or Error objects
EnsureMcpError(err, fallbackCode, fallbackMessage, extraData) ==
    IF err.kind = "McpError"
    THEN LET mergedData == MergeData(err.data, extraData)
         IN IF ~IsDefined(mergedData)
            THEN err
            ELSE McpError(err.code, StripMcpPrefix(err), mergedData)
    ELSE LET cause == {<<"cause", err.message>>}
                       \cup (IF err.name # "" /\ err.name # "Error"
                             THEN {<<"causeName", Text(err.name)>>} ELSE {})
             data == MergeData(IF IsDefined(extraData) THEN extraData
                                                       ELSE Some({}),
                              Some(cause))
         IN McpError(fallbackCode, fallbackMessage, data)

\* lines 86-88, called without data
InvalidParamsError(message) == McpError(InvalidParams, message, Undefined)

---------------------------------------------------------------------------
(* GeminiService.generateImage, gemini.ts lines 40-95, and
   handleGenerateImage, tools/generateImage.ts lines 52-84: one request *)

\* String.prototype.trim
Trim(str) ==
    LET kept == {i \in DOMAIN str : str[i] \notin WhiteSpace}
    IN IF kept = {} THEN <<>>
       ELSE SubSeq(str, CHOOSE i \in kept : \A j \in kept : i <= j,
                        CHOOSE i \in kept : \A j \in kept : i >= j)

UpperLetters ==
    <<"A","B","C","D","E","F","G","H","I","J","K","L","M",
      "N","O","P","Q","R","S","T","U","V","W","X","Y","Z">>
LowerLetters ==
    <<"a","b","c","d","e","f","g","h","i","j","k","l","m",
      "n","o","p","q","r","s","t","u","v","w","x","y","z">>

\* String.prototype.toLowerCase, on the letters A-Z
ToLowerCase(str) ==
    [i \in DOMAIN str |->
       IF \E k \in DOMAIN UpperLetters : UpperLetters[k] = str[i]
       THEN LowerLetters[CHOOSE k \in DOMAIN UpperLetters : UpperLetters[k] = str[i]]
       ELSE str[i]]

\* gemini.ts lines 68-71: the MIME type of a context image, by extension
ContextMimeType(imagePath) ==
    LET ext == ToLowerCase(ExtName(imagePath))
    IN IF ext = <<".","p","n","g">> THEN PNG
       ELSE IF ext \in {<<".","j","p","g">>, <<".","j","p","e","g">>} THEN JPEG
       ELSE IF ext = <<".","w","e","b","p">> THEN WEBP
       ELSE PNG

DescriptionMissingUntrimmed(description) == ~Truthy(description)

\* generateImage.ts line 57: !args.description || !args.description.trim()
DescriptionMissing(description) ==
    ~Truthy(description) \/ Trim(description[1]) = <<>>

\* a variant that drops the cause of the failure
CaughtWithoutCause(err) ==
    McpError(InternalError, Text("Failed to generate image"),
             Some({<<"stage", Text("generate_image.tool")>>}))

\* generateImage.ts lines 79-83: what the handler's catch block throws
Caught(err) ==
    EnsureMcpError(err, InternalError, Text("Failed to generate image"),
                   Some({<<"stage", Text("generate_image.tool")>>}))

\* fields of the request r are set; a throw inside the try block lands in
\* the catch block of the handler
Throw(r, err) == [r EXCEPT !.pc = "thrown", !.thrown = err]

\* generateImage.ts lines 79-83: err was thrown inside the try block; the
\* catch block throws what ensureMcpError makes of it
Catch(r, err) == Throw([r EXCEPT !.caught = err], Caught(err))

GenerateImageLoopIgnoreMissing(r) ==
    IF IsDefined(r.args.images) /\ r.next <= Len(r.args.images[1])
       /\ ExistsSync(dirs, files, Resolve(r.args.images[1][r.next]))
    THEN [r EXCEPT !.pc = "readFile"]
    ELSE [r EXCEPT !.pc = "generateContent", !.remoteCalls = @ + 1]

\* gemini.ts lines 59-77, from the top of the loop over args.images to the
\* next await: the readFile of the image at r.next, or, after the last
\* image, the call of the remote model
GenerateImageLoop(r) ==
    IF IsDefined(r.args.images) /\ r.next <= Len(r.args.images[1])
    THEN LET imagePath == Resolve(r.args.images[1][r.next])
         IN IF ~ExistsSync(dirs, files, imagePath)
            THEN Catch(r, (NewError(
                     TextWithPath("Context image not found: ", imagePath))))
            ELSE [r EXCEPT !.pc = "readFile"]
    ELSE [r EXCEPT !.pc = "generateContent", !.remoteCalls = @ + 1]

\* a response part with text, and one with inline data
TextPart(t) == [text |-> Some(t), inlineData |-> Undefined]
InlinePart(data, mimeType) ==
    [text |-> Undefined, inlineData |-> Some([data |-> data, mimeType |-> mimeType])]
\* a candidate with these parts, and one without content
Candidate(parts) == [content |-> Some([parts |-> Some(parts)])]
BlockedCandidate == [content |-> Undefined]

\* a variant that returns the last qualifying part
ExtractImageLastPart(response) ==
    LET candidates == response.candidates
        first == IF IsDefined(candidates) /\ Len(candidates[1]) > 0
                 THEN Some(candidates[1][1]) ELSE Undefined
        parts == IF IsDefined(first) /\ IsDefined(first[1].content)
                 THEN first[1].content[1].parts ELSE Undefined
    IN IF ~IsDefined(parts)
       THEN [ok |-> FALSE, err |-> NewError(Text("Could not generate image"))]
       ELSE LET good == {i \in DOMAIN parts[1] :
                           /\ IsDefined(parts[1][i].inlineData)
                           /\ Len(parts[1][i].inlineData[1].data) > 0
                           /\ Len(parts[1][i].inlineData[1].mimeType) > 0}
            IN IF good = {}
               THEN [ok |-> FALSE, err |-> NewError(Text("No image found in response"))]
               ELSE LET i == CHOOSE i \in good : \A j \in good : i >= j
                    IN [ok |-> TRUE,
                        image |-> [base64 |-> parts[1][i].inlineData[1].data,
                                   mimeType |-> parts[1][i].inlineData[1].mimeType]]

\* gemini.ts lines 80-94: the image of a response, or the error thrown
ExtractImage(response) ==
    LET candidates == response.candidates
        first == IF IsDefined(candidates) /\ Len(candidates[1]) > 0
                 THEN Some(candidates[1][1]) ELSE Undefined
        parts == IF IsDefined(first) /\ IsDefined(first[1].content)
                 THEN first[1].content[1].parts ELSE Undefined
    IN IF ~IsDefined(parts)
       THEN [ok |-> FALSE, err |-> NewError(Text("Could not generate image"))]
       ELSE LET good == {i \in DOMAIN parts[1] :
                           /\ IsDefined(parts[1][i].inlineData)
                           /\ Len(parts[1][i].inlineData[1].data) > 0
                           /\ Len(parts[1][i].inlineData[1].mimeType) > 0}
            IN IF good = {}
               THEN [ok |-> FALSE, err |-> NewError(Text("No image found in response"))]
               ELSE LET i == CHOOSE i \in good : \A j \in good : i <= j
                    IN [ok |-> TRUE,
                        image |-> [base64 |-> parts[1][i].inlineData[1].data,
                                   mimeType |-> parts[1][i].inlineData[1].mimeType]]

\* the arguments of the requests
ToolDescriptions ==
    {Undefined, Some(<<>>), Some(<<" ", "\t">>), Some(<<"a"," ","c","a","t","!">>)}

LogoArg == <<"l","o","g","o",".","p","n","g">>
MissingArg == <<"m","i","s","s","i","n","g",".","p","n","g">>
OutArg == <<"o","u","t">>
NoteArg == <<"n","o","t","e">>

ToolImages ==
    {Undefined, Some(<<>>), Some(<<LogoArg>>), Some(<<MissingArg>>),
     Some(<<LogoArg, MissingArg>>), Some(<<MissingArg, LogoArg>>),
     Some(<<OutArg, MissingArg>>), Some(<<LogoArg, NoteArg, MissingArg>>),
     Some(<<LogoArg, NoteArg>>)}

GenerateImageArgs ==
    [description : ToolDescriptions,
     images : ToolImages,
     outputPath : {Undefined, Some(<<"/","a","b","s","/","d","e","e","p","/","x",".","w","e","b","p">>)},
     watermarkPath : {Undefined, Some(LogoArg)},
     watermarkPosition : {Undefined}]

\* what the remote model may answer
Responses ==
    {[candidates |-> Undefined],
     [candidates |-> Some(<<>>)],
     [candidates |-> Some(<<BlockedCandidate>>)],
     [candidates |-> Some(<<Candidate(<<>>)>>)],
     [candidates |-> Some(<<Candidate(<<TextPart("here it is")>>)>>)],
     [candidates |-> Some(<<Candidate(<<TextPart("here it is"),
                                        InlinePart(<<"A","A","E","C">>, JPEG),
                                        InlinePart(<<"/","w","=","=">>, PNG)>>)>>)],
     [candidates |-> Some(<<Candidate(<<InlinePart(<<"A","A","E","C">>, <<>>),
                                        InlinePart(<<"/","w","=","=">>, GIF)>>)>>)],
     [candidates |-> Some(<<Candidate(<<InlinePart(<<>>, PNG),
                                        TextPart("second try"),
                                        InlinePart(<<"/","w","=","=">>, WEBP)>>),
                            Candidate(<<InlinePart(<<"A","A","E","C">>, JPEG)>>)>>)],
     [candidates |-> Some(<<BlockedCandidate,
                            Candidate(<<InlinePart(<<"A","A","E","C">>, JPEG)>>)>>)]}

\* what the remote call may reject with: an error of the SDK (its name is
\* 'Error') or of another class
RemoteErrors ==
    {NewError(Text("[GoogleGenerativeAI Error]: Error fetching")),
     NamedError("TypeError", Text("fetch failed")),
     NamedError("AbortError", Text("This operation was aborted"))}

IdleRequest ==
    [pc |-> "idle", args |-> <<>>, next |-> 1, parts |-> <<>>,
     remoteCalls |-> 0, response |-> Undefined, imageData |-> NoImage,
     caught |-> NoError, thrown |-> NoError, returned |-> Undefined]

InitTool ==
    /\ dirs = UsedFileSystem.dirs
    /\ files = UsedFileSystem.files
    /\ now = 0
    /\ InitCalls
    /\ nameOut = NoName
    /\ geomOut = NoGeom
    /\ req = IdleRequest
    /\ proc = NoProcess
    /\ errOut = NoErrOut

saveVars ==
    <<dirs, files, now, pc, image, opts, filename, finalPath, buffer, wmRan,
      wmGeom, result, error, steps>>

\* generateImage.ts lines 52-61 and gemini.ts lines 40-66: the handler is
\* called; it validates the description, then generateImage runs up to its
\* first await
HandleGenerateImage(args) ==
    /\ req.pc = "idle"
    /\ req' = IF DescriptionMissing(args.description)
              THEN Throw([req EXCEPT !.args = args],
                         InvalidParamsError(
                             Text("Description is required to generate an image")))
              ELSE GenerateImageLoop([req EXCEPT !.args = args])
    /\ UNCHANGED <<saveVars, nameOut, geomOut, proc, errOut>>

\* gemini.ts lines 66-72 and back to 61: the image was read
ReadFileOk ==
    /\ req.pc = "readFile"
    /\ LET imagePath == Resolve(req.args.images[1][req.next])
       IN /\ IsFile(files, imagePath)
          /\ req' = GenerateImageLoop(
                       [req EXCEPT !.next = @ + 1,
                                   !.parts = Append(@, [mimeType |-> ContextMimeType(imagePath),
                                                        data |-> files[imagePath]])])
    /\ UNCHANGED <<saveVars, nameOut, geomOut, proc, errOut>>

\* gemini.ts line 66: readFile rejects: the path is a directory, or the
\* system refuses the read
ReadFileFail ==
    /\ req.pc = "readFile"
    /\ LET imagePath == Resolve(req.args.images[1][req.next])
       IN req' = Catch(req, (NewError(
                    IF IsDir(dirs, imagePath)
                    THEN TextWithPath("EISDIR: illegal operation on a directory, read", <<>>)
                    ELSE TextWithPath("EACCES: permission denied, open ", imagePath))))
    /\ UNCHANGED <<saveVars, nameOut, geomOut, proc, errOut>>

\* gemini.ts lines 77-94 and generateImage.ts line 61: the remote model
\* answered
GenerateContentOk(response) ==
    /\ req.pc = "generateContent"
    /\ LET got == ExtractImage(response)
           r == [req EXCEPT !.response = Some(response)]
       IN req' = IF got.ok
                 THEN [r EXCEPT !.pc = "saveImage", !.imageData = got.image]
                 ELSE Catch(r, (got.err))
    /\ UNCHANGED <<saveVars, nameOut, geomOut, proc, errOut>>

\* a variant that calls the remote model again after a rejection
GenerateContentFailRetry(err) ==
    /\ req.pc = "generateContent"
    /\ req' = [req EXCEPT !.remoteCalls = @ + 1]
    /\ UNCHANGED <<saveVars, nameOut, geomOut, proc, errOut>>

\* gemini.ts line 77: the remote call rejects
GenerateContentFail(err) ==
    /\ req.pc = "generateContent"
    /\ req' = Catch(req, err)
    /\ UNCHANGED <<saveVars, nameOut, geomOut, proc, errOut>>

\* generateImage.ts lines 63-68: saveImage is called with the image and the
\* options taken from the arguments
SaveImageCall ==
    /\ req.pc = "saveImage"
    /\ BeginSave(1, req.imageData,
                 [outputPath |-> req.args.outputPath,
                  description |-> req.args.description,
                  watermarkPath |-> req.args.watermarkPath,
                  watermarkPosition |-> req.args.watermarkPosition])

\* generateImage.ts lines 70-77: saveImage returned the path
HandlerReturn ==
    /\ req.pc = "saveImage"
    /\ pc[1] = "done"
    /\ req' = [req EXCEPT !.pc = "returned", !.returned = Some(result[1][1])]
    /\ UNCHANGED <<saveVars, nameOut, geomOut, proc, errOut>>

\* generateImage.ts lines 78-83: saveImage rejected
HandlerCatch ==
    /\ req.pc = "saveImage"
    /\ pc[1] = "failed"
    /\ req' = Catch(req, (NewError(Text(error[1]))))
    /\ UNCHANGED <<saveVars, nameOut, geomOut, proc, errOut>>

NextTool ==
    \/ \E args \in GenerateImageArgs : HandleGenerateImage(args)
    \/ ReadFileOk
    \/ ReadFileFail
    \/ \E response \in Responses : GenerateContentOk(response)
    \/ \E err \in RemoteErrors : GenerateContentFail(err)
    \/ SaveImageCall
    \/ AddWatermarkOk(1)
    \/ AddWatermarkFail(1)
    \/ Mkdir(1)
    \/ MkdirFail(1)
    \/ WriteFile(1)
    \/ Return(1)
    \/ HandlerReturn
    \/ HandlerCatch

SpecTool == InitTool /\ [][NextTool]_vars

---------------------------------------------------------------------------
(* Properties of handleGenerateImage and generateImage *)

\* C16: a request whose description is missing, empty or only white space
\* ends at once with the InvalidParams McpError 'Description is required to
\* generate an image', exactly as invalidParams built it (code InvalidParams,
\* no data, not passed through the handler's catch block, so neither an
\* InternalError nor a stage); the remote model is not called, no context
\* image is read, saveImage is not called and the file system is untouched.
MissingDescriptionIsInvalidParams ==
    (/\ req.pc # "idle"
     /\ \/ ~IsDefined(req.args.description)
        \/ \A i \in DOMAIN req.args.description[1] :
              req.args.description[1][i] \in WhiteSpace)
      => /\ req.pc = "thrown"
         /\ req.thrown.kind = "McpError"
         /\ req.thrown.code = InvalidParams
         /\ req.thrown.code # InternalError
         /\ req.thrown.message
              = [prefixes |-> <<InvalidParams>>,
                 text |-> "Description is required to generate an image",
                 path |-> <<>>]
         /\ req.thrown.data = Undefined
         /\ req.remoteCalls = 0
         /\ req.parts = <<>>
         /\ req.returned = Undefined
         /\ pc[1] = "idle"
         /\ steps[1] = <<>>
         /\ dirs = UsedFileSystem.dirs
         /\ files = UsedFileSystem.files

\* a request with a description of white space only, and with context
\* images and an output path, was refused
RefusedBlankDescription ==
    /\ req.pc = "thrown"
    /\ req.args.description = Some(<<" ", "\t">>)
    /\ req.args.images = Some(<<LogoArg>>)
    /\ IsDefined(req.args.outputPath)
    /\ req.thrown.code = InvalidParams
    /\ req.remoteCalls = 0
    /\ pc[1] = "idle"

\* the request has a valid description and a context image path that does
\* not exist; the index of the first such path; the cause recorded for the
\* error generateImage threw
HasMissingContextImage ==
    /\ req.pc # "idle"
    /\ ~DescriptionMissing(req.args.description)
    /\ IsDefined(req.args.images)
    /\ \E i \in DOMAIN req.args.images[1] :
          ~ExistsSync(dirs, files, Resolve(req.args.images[1][i]))
FirstMissing ==
    CHOOSE i \in DOMAIN req.args.images[1] :
        /\ ~ExistsSync(dirs, files, Resolve(req.args.images[1][i]))
        /\ \A j \in 1..(i - 1) :
              ExistsSync(dirs, files, Resolve(req.args.images[1][j]))
ThrownCause ==
    (CHOOSE d \in req.thrown.data[1] : d[1] = "cause")[2]

\* C17 as stated: when some path of args.images does not exist, the call
\* fails with 'Context image not found' and the remote model is never
\* called, wherever the missing path is in the list and however many
\* earlier images were read.
MissingContextImageNotFound ==
    HasMissingContextImage =>
        /\ req.remoteCalls = 0
        /\ req.pc \in {"readFile", "thrown"}
        /\ req.pc = "thrown" =>
              ThrownCause.text = "Context image not found: "

\* C17, amended: when some path of args.images does not exist, the call
\* fails and the remote model is never called (nor saveImage), wherever
\* the missing path is in the list.  The error is 'Context image not
\* found' with the first missing path, after every earlier image was
\* read, unless the read of an earlier, existing path failed (it is a
\* directory, or the system refused it): then the call fails with that
\* read error, before the missing path is looked at.
MissingContextImageStopsRequest ==
    HasMissingContextImage =>
        /\ req.remoteCalls = 0
        /\ req.pc \in {"readFile", "thrown"}
        /\ req.returned = Undefined
        /\ pc[1] = "idle"
        /\ req.next <= FirstMissing
        /\ Len(req.parts) = req.next - 1
        /\ req.pc = "thrown" =>
              /\ req.thrown.code = InternalError
              /\ IF req.next = FirstMissing
                 THEN ThrownCause
                        = TextWithPath("Context image not found: ",
                                       Resolve(req.args.images[1][FirstMissing]))
                 ELSE ThrownCause.text
                        \in {"EISDIR: illegal operation on a directory, read",
                             "EACCES: permission denied, open "}

\* the third context image is missing; the two before it were read, the
\* request failed with 'Context image not found' and no remote call
FailedAtThirdContextImage ==
    /\ req.pc = "thrown"
    /\ req.args.images = Some(<<LogoArg, NoteArg, MissingArg>>)
    /\ Len(req.parts) = 2
    /\ ThrownCause.text = "Context image not found: "
    /\ ThrownCause.path = Resolve(MissingArg)
    /\ req.remoteCalls = 0

\* the remote model answered the request; the parts of the first candidate
\* of its answer (Undefined when that candidate has no content or no parts
\* list); the indices of the parts that have both inline data and a MIME
\* type
Answered == IsDefined(req.response)
HasFirstCandidate ==
    /\ IsDefined(req.response[1].candidates)
    /\ Len(req.response[1].candidates[1]) > 0
FirstCandidateParts ==
    LET candidate == req.response[1].candidates[1][1]
    IN IF IsDefined(candidate.content)
       THEN candidate.content[1].parts ELSE Undefined
Qualifying ==
    {i \in DOMAIN FirstCandidateParts[1] :
        LET part == FirstCandidateParts[1][i]
        IN /\ IsDefined(part.inlineData)
           /\ part.inlineData[1].data # <<>>
           /\ part.inlineData[1].mimeType # <<>>}

\* C21: generateImage returns the first part, in response order, of the
\* first candidate that has both inline data and a MIME type: text parts,
\* parts with empty data or MIME type, later image parts and later
\* candidates are ignored.  It fails with 'Could not generate image' when
\* the first candidate has no parts list, and with 'No image found in
\* response' when the list holds no part that qualifies.
FirstInlineImageIsReturned ==
    (Answered /\ HasFirstCandidate) =>
        IF ~IsDefined(FirstCandidateParts)
        THEN /\ req.pc = "thrown"
             /\ ThrownCause = Text("Could not generate image")
             /\ req.imageData = NoImage
        ELSE IF Qualifying = {}
        THEN /\ req.pc = "thrown"
             /\ ThrownCause = Text("No image found in response")
             /\ req.imageData = NoImage
        ELSE \E i \in Qualifying :
                /\ \A j \in Qualifying : i <= j
                /\ req.imageData
                     = [base64 |-> FirstCandidateParts[1][i].inlineData[1].data,
                        mimeType |-> FirstCandidateParts[1][i].inlineData[1].mimeType]

\* C22: in every step of a handleGenerateImage request: the remote model
\* has been called at most once; saveImage (call 1) has been started only
\* after the one remote call answered with an image, and once started it
\* is never started again; a pending remote call ends in the saveImage
\* call or in the error, without another remote call; a failed saveImage
\* is followed by the error alone, the file system, the call and the
\* count of remote calls unchanged; and once the request ended, with the
\* error (an McpError, no result) or with the result, nothing runs any
\* more.
NoSecondAttempt ==
    [][/\ req'.remoteCalls <= 1
       /\ pc'[1] # "idle" =>
             /\ req'.remoteCalls = 1
             /\ Answered'
             /\ req'.imageData # NoImage
             /\ image'[1] = req'.imageData
       /\ pc[1] # "idle" => pc'[1] # "idle"
       /\ req.pc = "generateContent" =>
             /\ req'.pc \in {"saveImage", "thrown"}
             /\ req'.remoteCalls = req.remoteCalls
             /\ UNCHANGED saveVars
       /\ pc[1] = "failed" =>
             /\ req'.pc = "thrown"
             /\ req'.remoteCalls = req.remoteCalls
             /\ UNCHANGED saveVars
       /\ req'.pc = "thrown" =>
             /\ req'.thrown.kind = "McpError"
             /\ req'.returned = Undefined
       /\ req.pc \notin {"thrown", "returned"}
      ]_vars

\* saveImage failed after the one remote call, and the request ended with
\* the error
FailedInSaveAfterOneRemoteCall ==
    /\ req.pc = "thrown"
    /\ pc[1] = "failed"
    /\ req.remoteCalls = 1
    /\ req.returned = Undefined

\* C23: when the remote call or saveImage fails inside the try block of
\* handleGenerateImage with an error that is not an McpError, the handler
\* throws an McpError with code InternalError and message 'Failed to
\* generate image', whose data holds stage = 'generate_image.tool', cause =
\* the message of the original error, and causeName = its name exactly
\* when that name is not 'Error', and nothing else; the request has no
\* result, and a failed saveImage never leaves the request with a result.
FailureSurfacesAsInternalError ==
    /\ (req.pc = "thrown" /\ req.caught # NoError
          /\ req.caught.kind # "McpError") =>
          /\ req.thrown.kind = "McpError"
          /\ req.thrown.code = InternalError
          /\ req.thrown.message
               = [prefixes |-> <<InternalError>>,
                  text |-> "Failed to generate image", path |-> <<>>]
          /\ IsDefined(req.thrown.data)
          /\ req.thrown.data[1]
               = {<<"stage", Text("generate_image.tool")>>,
                  <<"cause", req.caught.message>>}
                   \cup (IF req.caught.name # "Error"
                         THEN {<<"causeName", Text(req.caught.name)>>}
                         ELSE {})
          /\ req.returned = Undefined
    /\ pc[1] = "failed" =>
          /\ req.pc \in {"saveImage", "thrown"}
          /\ req.returned = Undefined
          /\ req.pc = "thrown" => req.caught = NewError(Text(error[1]))
    /\ req.pc = "returned" => (pc[1] = "done" /\ req.caught = NoError)

\* the remote call was rejected with a TypeError, and the handler threw
\* the InternalError with stage, cause and causeName
ThrownForNamedRemoteError ==
    /\ req.pc = "thrown"
    /\ req.remoteCalls = 1
    /\ ~Answered
    /\ req.caught = NamedError("TypeError", Text("fetch failed"))
    /\ <<"causeName", Text("TypeError")>> \in req.thrown.data[1]
    /\ <<"cause", Text("fetch failed")>> \in req.thrown.data[1]

\* the answer held a text part, then two image parts: the first image part
\* was handed to saveImage
ReturnedSecondPartOfThree ==
    /\ Answered /\ HasFirstCandidate
    /\ IsDefined(FirstCandidateParts)
    /\ Len(FirstCandidateParts[1]) = 3
    /\ Qualifying = {2, 3}
    /\ req.imageData = [base64 |-> <<"A","A","E","C">>, mimeType |-> JPEG]
    /\ pc[1] # "idle"

---------------------------------------------------------------------------
(* The command line, src/cli.ts: the arguments are strings *)

PromptOpt == <<"-","-","p","r","o","m","p","t">>
AspectOpt == <<"-","-","a","s","p","e","c","t">>
StyleOpt == <<"-","-","s","t","y","l","e">>
ContextOpt == <<"-","-","c","o","n","t","e","x","t">>
OutputOpt == <<"-","-","o","u","t","p","u","t">>
WatermarkOpt == <<"-","-","w","a","t","e","r","m","a","r","k">>
WatermarkPositionOpt ==
    <<"-","-","w","a","t","e","r","m","a","r","k","-","p","o","s","i","t","i","o","n">>
InputOpt == <<"-","-","i","n","p","u","t">>
GenerateCommand == <<"g","e","n","e","r","a","t","e">>
EditCommand == <<"e","d","i","t">>

\* lines 99-109
IsSupportedCommand(command) == command \in {GenerateCommand, EditCommand}
IsHelpFlag(value) == value \in {<<"-","-","h","e","l","p">>, <<"-","h">>}
\* a variant that knows the long form only
IsVersionFlagLongOnly(value) == value = <<"-","-","v","e","r","s","i","o","n">>
IsVersionFlag(value) == value \in {<<"-","-","v","e","r","s","i","o","n">>, <<"-","v">>}

\* lines 36-42
SupportedAspects ==
    {<<"s","q","u","a","r","e">>, <<"l","a","n","d","s","c","a","p","e">>,
     <<"p","o","r","t","r","a","i","t">>}
SupportedWatermarkPositions == Positions

\* String.prototype.slice(n)
SliceFrom(str, n) == SubSeq(str, n + 1, Len(str))

\* the outcomes of parsing: the options, an error thrown, or process.exit(0)
Parsed(options) == [kind |-> "options", options |-> options]
ParseError(message) == [kind |-> "error", err |-> NewError(message)]
ParseExit == [kind |-> "exit"]

\* lines 402-424, for an argument that is the option name itself; the
\* value is the next argument; next is the index parsing goes on from
RequireOptionValue(args, index, optionName) ==
    IF \E k \in DOMAIN args[index] : args[index][k] = "="
    THEN LET equalsIndex == CHOOSE k \in DOMAIN args[index] :
                               /\ args[index][k] = "="
                               /\ \A j \in 1..(k - 1) : args[index][j] # "="
         IN [hit |-> TRUE, ok |-> TRUE, value |-> SliceFrom(args[index], equalsIndex),
             next |-> index + 1]
    ELSE IF index + 1 > Len(args)
    THEN [hit |-> TRUE, ok |-> FALSE,
          err |-> TextWithPath("Option requires a value: ", optionName)]
    ELSE [hit |-> TRUE, ok |-> TRUE, value |-> args[index + 1], next |-> index + 2]

\* the two forms of one option, as each pair of if-statements of lines
\* 253-330 and 356-387 reads them: '--name=value', or '--name' (or its
\* short form, if it has one) followed by the value
OptionAt(args, i, long, short) ==
    IF StartsWith(args[i], long \o <<"=">>)
    THEN [hit |-> TRUE, ok |-> TRUE, value |-> SliceFrom(args[i], Len(long) + 1),
          next |-> i + 1]
    ELSE IF args[i] = long \/ (short # <<>> /\ args[i] = short)
    THEN RequireOptionValue(args, i, long)
    ELSE [hit |-> FALSE]

NoGenerateOptions ==
    [prompt |-> <<>>, aspect |-> Undefined, style |-> Undefined, contexts |-> <<>>,
     output |-> Undefined, watermark |-> Undefined, watermarkPosition |-> Undefined]

\* lines 239-340
RECURSIVE ParseGenerateFrom(_, _, _)
ParseGenerateFrom(args, i, options) ==
    IF i > Len(args)
    THEN IF Trim(options.prompt) = <<>>
         THEN ParseError(Text("Missing required option: --prompt"))
         ELSE Parsed(options)
    ELSE IF IsHelpFlag(args[i]) THEN ParseExit
    ELSE LET prompt == OptionAt(args, i, PromptOpt, <<"-","p">>)
             aspect == OptionAt(args, i, AspectOpt, <<"-","a">>)
             style == OptionAt(args, i, StyleOpt, <<"-","s">>)
             context == OptionAt(args, i, ContextOpt, <<"-","c">>)
             output == OptionAt(args, i, OutputOpt, <<"-","o">>)
             watermark == OptionAt(args, i, WatermarkOpt, <<>>)
             position == OptionAt(args, i, WatermarkPositionOpt, <<>>)
             first == IF prompt.hit THEN prompt ELSE IF aspect.hit THEN aspect
                      ELSE IF style.hit THEN style ELSE IF context.hit THEN context
                      ELSE IF output.hit THEN output
                      ELSE IF watermark.hit THEN watermark ELSE position
         IN IF ~first.hit
            THEN ParseError(TextWithPath("Unknown option for generate command: ", args[i]))
            ELSE IF ~first.ok THEN ParseError(first.err)
            ELSE IF prompt.hit
            THEN ParseGenerateFrom(args, first.next, [options EXCEPT !.prompt = first.value])
            ELSE IF aspect.hit
            THEN IF first.value \notin SupportedAspects
                 THEN ParseError(TextWithPath("Invalid aspect ratio: ", first.value))
                 ELSE ParseGenerateFrom(args, first.next,
                                        [options EXCEPT !.aspect = Some(first.value)])
            ELSE IF style.hit
            THEN ParseGenerateFrom(args, first.next,
                                   [options EXCEPT !.style = Some(first.value)])
            ELSE IF context.hit
            THEN ParseGenerateFrom(args, first.next,
                                   [options EXCEPT !.contexts = Append(@, first.value)])
            ELSE IF output.hit
            THEN ParseGenerateFrom(args, first.next,
                                   [options EXCEPT !.output = Some(first.value)])
            ELSE IF watermark.hit
            THEN ParseGenerateFrom(args, first.next,
                                   [options EXCEPT !.watermark = Some(first.value)])
            ELSE IF first.value \notin SupportedWatermarkPositions
                 THEN ParseError(TextWithPath("Invalid watermark position: ", first.value))
                 ELSE ParseGenerateFrom(args, first.next,
                          [options EXCEPT !.watermarkPosition = Some(first.value)])

ParseGenerateCommand(args) == ParseGenerateFrom(args, 1, NoGenerateOptions)

NoEditOptions == [prompt |-> <<>>, input |-> <<>>, output |-> Undefined]

\* lines 342-400
RECURSIVE ParseEditFrom(_, _, _)
ParseEditFrom(args, i, options) ==
    IF i > Len(args)
    THEN IF Trim(options.prompt) = <<>>
         THEN ParseError(Text("Missing required option: --prompt"))
         ELSE IF Trim(options.input) = <<>>
         THEN ParseError(Text("Missing required option: --input"))
         ELSE Parsed(options)
    ELSE IF IsHelpFlag(args[i]) THEN ParseExit
    ELSE LET prompt == OptionAt(args, i, PromptOpt, <<"-","p">>)
             input == OptionAt(args, i, InputOpt, <<"-","i">>)
             output == OptionAt(args, i, OutputOpt, <<"-","o">>)
             first == IF prompt.hit THEN prompt ELSE IF input.hit THEN input ELSE output
         IN IF ~first.hit
            THEN ParseError(TextWithPath("Unknown option for edit command: ", args[i]))
            ELSE IF ~first.ok THEN ParseError(first.err)
            ELSE IF prompt.hit
            THEN ParseEditFrom(args, first.next, [options EXCEPT !.prompt = first.value])
            ELSE IF input.hit
            THEN ParseEditFrom(args, first.next, [options EXCEPT !.input = first.value])
            ELSE ParseEditFrom(args, first.next,
                               [options EXCEPT !.output = Some(first.value)])

ParseEditCommand(args) == ParseEditFrom(args, 1, NoEditOptions)

---------------------------------------------------------------------------
(* Start-up: the service factory (part_004 lines 122-139), the MCP server
   (part_004 lines 18-112) and the command line (cli.ts lines 44-97,
   185-237, 456-489) *)

GeminiServiceName == "GeminiService"
ImageServiceName == "ImageService"

CreateGeminiImageServicesUndefinedOnly(apiKey) ==
    IF ~IsDefined(apiKey)
    THEN [ok |-> FALSE, services |-> {},
          err |-> NamedError("MissingEnvironmentError",
                             Text("GOOGLE_API_KEY environment variable is required"))]
    ELSE [ok |-> TRUE, services |-> {GeminiServiceName, ImageServiceName}]

\* part_004 lines 129-139: the services constructed, or the error thrown;
\* apiKey is process.env.GOOGLE_API_KEY
CreateGeminiImageServices(apiKey) ==
    IF ~Truthy(apiKey)
    THEN [ok |-> FALSE, services |-> {},
          err |-> NamedError("MissingEnvironmentError",
                             Text("GOOGLE_API_KEY environment variable is required"))]
    ELSE [ok |-> TRUE, services |-> {GeminiServiceName, ImageServiceName}]

\* a process before its first statement
StartProcess(mode, apiKey, argv) ==
    [pc |-> "start", mode |-> mode, apiKey |-> apiKey, argv |-> argv,
     command |-> <<>>, exitCode |-> Undefined, exited |-> FALSE, out |-> <<>>,
     keyReads |-> 0, services |-> {}, handlers |-> FALSE, connected |-> FALSE,
     toolArgs |-> <<>>, editCalls |-> 0, handled |-> "none",
     call |-> [pc |-> "idle"]]

\* part_004 lines 23-55 and 111: new GeminiImageMCPServer(); process.exit(1)
\* ends the process inside initializeServices
ServerConstruct ==
    /\ proc.pc = "start"
    /\ proc.mode = "server"
    /\ LET made == CreateGeminiImageServices(proc.apiKey)
       IN proc' = IF made.ok
                  THEN [proc EXCEPT !.pc = "constructed", !.keyReads = @ + 1,
                                    !.services = made.services, !.handlers = TRUE]
                  ELSE [proc EXCEPT !.pc = "exited", !.keyReads = @ + 1,
                                    !.out = Append(@, "Error: " \o made.err.message.text),
                                    !.exited = TRUE, !.exitCode = Some(1)]
    /\ UNCHANGED <<saveVars, nameOut, geomOut, req, errOut>>

\* part_004 lines 104-106 and 112: server.run() up to the await of connect
ServerRun ==
    /\ proc.pc = "constructed"
    /\ proc' = [proc EXCEPT !.pc = "connecting"]
    /\ UNCHANGED <<saveVars, nameOut, geomOut, req, errOut>>

\* part_004 line 107: the transport is connected
ServerConnected ==
    /\ proc.pc = "connecting"
    /\ proc' = [proc EXCEPT !.pc = "running", !.connected = TRUE,
                            !.out = Append(@, "Gemini Image MCP Server running on stdio")]
    /\ UNCHANGED <<saveVars, nameOut, geomOut, req, errOut>>

\* part_004 line 112: connect rejects, run().catch(console.error)
ServerConnectFail ==
    /\ proc.pc = "connecting"
    /\ proc' = [proc EXCEPT !.pc = "end", !.out = Append(@, "connect failed")]
    /\ UNCHANGED <<saveVars, nameOut, geomOut, req, errOut>>

\* a variant that reports the error without setting the exit code
HandleCommandErrorOnlyPrints(p, err) ==
    [p EXCEPT !.pc = "end",
              !.out = Append(@, "[command] " \o err.message.text)]

\* cli.ts lines 472-489
HandleCommandError(p, err) ==
    [p EXCEPT !.pc = "end", !.exitCode = Some(1),
              !.out = Append(@, "[command] " \o err.message.text)]

\* cli.ts lines 456-470 and 187-202 / 216-227: createServicesOrExit, then
\* the arguments of the tool handler, which is called next
CreateServicesOrExit(p, toolArgs) ==
    LET made == CreateGeminiImageServices(p.apiKey)
    IN IF made.ok
       THEN [p EXCEPT !.pc = "handler", !.keyReads = @ + 1,
                      !.services = made.services, !.toolArgs = toolArgs]
       ELSE [p EXCEPT !.pc = "end", !.keyReads = @ + 1, !.exitCode = Some(1),
                      !.out = Append(@, "Error: " \o made.err.message.text)]

\* a variant that creates the services before it parses the arguments
RunGenerateServicesFirst(p, rawArgs) ==
    LET parsed == ParseGenerateCommand(rawArgs)
        made == CreateServicesOrExit(p, <<>>)
    IN IF made.pc = "end" THEN made
       ELSE IF parsed.kind = "error" THEN HandleCommandError(made, parsed.err)
       ELSE IF parsed.kind = "exit"
       THEN [made EXCEPT !.pc = "exited", !.exited = TRUE, !.exitCode = Some(0)]
       ELSE [made EXCEPT !.toolArgs =
              [description |-> Some(Trim(parsed.options.prompt)),
               outputPath |-> parsed.options.output,
               watermarkPath |-> parsed.options.watermark,
               watermarkPosition |-> parsed.options.watermarkPosition,
               images |-> IF Len(parsed.options.contexts) > 0
                          THEN Some(parsed.options.contexts) ELSE Undefined]]

\* cli.ts lines 185-202
RunGenerate(p, rawArgs) ==
    LET parsed == ParseGenerateCommand(rawArgs)
    IN IF parsed.kind = "error" THEN HandleCommandError(p, parsed.err)
       ELSE IF parsed.kind = "exit"
       THEN [p EXCEPT !.pc = "exited", !.exited = TRUE, !.exitCode = Some(0),
                      !.out = Append(@, "generate help")]
       ELSE CreateServicesOrExit(p,
              [description |-> Some(Trim(parsed.options.prompt)),
               outputPath |-> parsed.options.output,
               watermarkPath |-> parsed.options.watermark,
               watermarkPosition |->
                   IF IsDefined(parsed.options.watermarkPosition)
                   THEN parsed.options.watermarkPosition
                   ELSE IF Truthy(parsed.options.watermark)
                   THEN Some(BottomRight) ELSE Undefined,
               images |-> IF Len(parsed.options.contexts) > 0
                          THEN Some(parsed.options.contexts) ELSE Undefined])

\* cli.ts lines 214-227
RunEdit(p, rawArgs) ==
    LET parsed == ParseEditCommand(rawArgs)
    IN IF parsed.kind = "error" THEN HandleCommandError(p, parsed.err)
       ELSE IF parsed.kind = "exit"
       THEN [p EXCEPT !.pc = "exited", !.exited = TRUE, !.exitCode = Some(0),
                      !.out = Append(@, "edit help")]
       ELSE CreateServicesOrExit(p,
              [description |-> Some(Trim(parsed.options.prompt)),
               image |-> parsed.options.input,
               outputPath |-> parsed.options.output])

\* cli.ts lines 44-97, up to the await of the tool handler
Main(p) ==
    IF Len(p.argv) = 0 \/ IsHelpFlag(p.argv[1])
    THEN [p EXCEPT !.pc = "end", !.out = Append(@, "global help")]
    ELSE IF IsVersionFlag(p.argv[1])
    THEN [p EXCEPT !.pc = "end", !.out = Append(@, "version")]
    ELSE IF ~IsSupportedCommand(p.argv[1])
    THEN [p EXCEPT !.pc = "end", !.exitCode = Some(1),
                   !.out = @ \o <<"Unknown command", "global help">>]
    ELSE LET commandArgs == Tail(p.argv)
             q == [p EXCEPT !.command = p.argv[1]]
         IN IF \E i \in DOMAIN commandArgs : IsVersionFlag(commandArgs[i])
            THEN [q EXCEPT !.pc = "end", !.out = Append(@, "version")]
            ELSE IF \E i \in DOMAIN commandArgs : IsHelpFlag(commandArgs[i])
            THEN [q EXCEPT !.pc = "end", !.out = Append(@, "command help")]
            ELSE IF q.command = GenerateCommand
            THEN RunGenerate(q, commandArgs)
            ELSE RunEdit(q, commandArgs)

CliMain ==
    /\ proc.pc = "start"
    /\ proc.mode = "cli"
    /\ proc' = Main(proc)
    /\ UNCHANGED <<saveVars, nameOut, geomOut, req, errOut>>

\* cli.ts line 204: handleGenerateImage is called
CliCallGenerate ==
    /\ proc.pc = "handler"
    /\ proc.command = GenerateCommand
    /\ HandleGenerateImage(proc.toolArgs)

\* cli.ts lines 204-211 and 94-95: the handler returned or threw
CliGenerateDone ==
    /\ proc.pc = "handler"
    /\ proc.command = GenerateCommand
    /\ req.pc \in {"returned", "thrown"}
    /\ proc' = IF req.pc = "thrown"
              THEN HandleCommandError([proc EXCEPT !.handled = "threw"], req.thrown)
              ELSE IF ~Truthy(req.returned)
              THEN [proc EXCEPT !.pc = "end", !.exitCode = Some(1),
                      !.handled = "no text",
                      !.out = Append(@, "Image generated, but no output path was returned.")]
              ELSE [proc EXCEPT !.pc = "end", !.handled = "text",
                                !.out = Append(@, "Saved image to")]
    /\ UNCHANGED <<saveVars, nameOut, geomOut, req, errOut>>

\* what handleEditImage may do for the command line's arguments
EditOutcomes == {"text", "no text", "McpError", "Error", "value"}

\* cli.ts lines 229-236 and 94-95: handleEditImage is called and returns
\* or throws
CliEdit(outcome) ==
    /\ proc.pc = "handler"
    /\ proc.command = EditCommand
    /\ LET called == [proc EXCEPT !.editCalls = @ + 1]
           threw == [called EXCEPT !.handled = "threw"]
       IN proc' = CASE outcome = "text" ->
                        [called EXCEPT !.pc = "end", !.handled = "text",
                                       !.out = Append(@, "Saved image to")]
                    [] outcome = "no text" ->
                        [called EXCEPT !.pc = "end", !.exitCode = Some(1),
                           !.handled = "no text",
                           !.out = Append(@, "Image edited, but no output path was returned.")]
                    [] outcome = "McpError" ->
                        HandleCommandError(threw,
                            McpError(InternalError, Text("Failed to edit image"), Undefined))
                    [] outcome = "Error" ->
                        HandleCommandError(threw, NewError(Text("Image path is required")))
                    [] outcome = "value" ->
                        HandleCommandError(threw, ThrownValue("boom"))
    /\ UNCHANGED <<saveVars, nameOut, geomOut, req, errOut>>

\* the environment and the command lines of the processes
ApiKeys == {Undefined, Some(<<>>), Some(<<"k","e","y">>)}

Argvs ==
    {<<>>,
     <<<<"-","-","h","e","l","p">>>>,
     <<<<"-","v">>>>,
     <<<<"b","o","g","u","s">>>>,
     <<<<"g","e","n","e","r","a","t","e">>, <<"-","-","p","r","o","m","p","t">>, <<"a"," ","c","a","t","!">>>>,
     <<<<"g","e","n","e","r","a","t","e">>, <<"-","p">>, <<"a"," ","c","a","t","!">>, <<"-","-","o","u","t","p","u","t","=","/","a","b","s","/","d","e","e","p","/","x",".","w","e","b","p">>>>,
     <<<<"g","e","n","e","r","a","t","e">>, <<"-","-","p","r","o","m","p","t","="," ">>>>,
     <<<<"g","e","n","e","r","a","t","e">>, <<"-","-","b","o","g","u","s">>>>,
     <<<<"g","e","n","e","r","a","t","e">>, <<"-","-","p","r","o","m","p","t">>>>,
     <<<<"g","e","n","e","r","a","t","e">>, <<"-","a">>, <<"w","i","d","e">>, <<"-","p">>, <<"x">>>>,
     <<<<"g","e","n","e","r","a","t","e">>, <<"-","p">>, <<"a"," ","c","a","t","!">>, <<"-","h">>>>,
     <<<<"g","e","n","e","r","a","t","e">>, <<"-","-","p","r","o","m","p","t">>, <<"-","-","v","e","r","s","i","o","n">>>>,
     <<<<"g","e","n","e","r","a","t","e">>, <<"-","p">>, <<"a"," ","c","a","t","!">>, <<"-","c">>, <<"m","i","s","s","i","n","g",".","p","n","g">>>>,
     <<<<"g","e","n","e","r","a","t","e">>, <<"-","p">>, <<"a"," ","c","a","t","!">>, <<"-","-","c","o","n","t","e","x","t","=","l","o","g","o",".","p","n","g">>, <<"-","c">>, <<"o","u","t">>>>,
     <<<<"g","e","n","e","r","a","t","e">>, <<"-","p">>, <<"a"," ","c","a","t","!">>, <<"-","-","w","a","t","e","r","m","a","r","k">>, <<"l","o","g","o",".","p","n","g">>, <<"-","-","w","a","t","e","r","m","a","r","k","-","p","o","s","i","t","i","o","n","=","t","o","p","-","l","e","f","t">>>>,
     <<<<"e","d","i","t">>, <<"-","-","p","r","o","m","p","t">>, <<"f","i","x">>, <<"-","-","i","n","p","u","t">>, <<"l","o","g","o",".","p","n","g">>>>,
     <<<<"e","d","i","t">>, <<"-","-","p","r","o","m","p","t">>, <<"f","i","x">>>>,
     <<<<"e","d","i","t">>, <<"-","-","h","e","l","p">>, <<"-","v">>>>,
     <<<<"e","d","i","t">>, <<"-","i">>, <<"l","o","g","o",".","p","n","g">>, <<"-","o">>>>,
     <<<<"g","e","n","e","r","a","t","e">>, <<"-","-","p","r","o","m","p","t">>, <<"-","h">>>>,
     <<<<"g","e","n","e","r","a","t","e">>, <<"-","-","b","o","g","u","s">>, <<"-","-","v","e","r","s","i","o","n">>>>,
     <<<<"g","e","n","e","r","a","t","e">>, <<"-","p">>, <<"x">>, <<"-","-","w","a","t","e","r","m","a","r","k","-","p","o","s","i","t","i","o","n","=","m","i","d","d","l","e">>>>,
     <<<<"g","e","n","e","r","a","t","e">>, <<"-","-","p","r","o","m","p","t","=","-","h">>>>,
     <<<<"e","d","i","t">>, <<"-","i">>, <<"l","o","g","o",".","p","n","g">>, <<"-","p">>, <<"f","i","x">>, <<"-","o">>, <<"o","u","t","/">>>>}

InitStart ==
    /\ dirs = UsedFileSystem.dirs
    /\ files = UsedFileSystem.files
    /\ now = 0
    /\ InitCalls
    /\ nameOut = NoName
    /\ geomOut = NoGeom
    /\ req = IdleRequest
    /\ \E apiKey \in ApiKeys :
         \/ proc = StartProcess("server", apiKey, <<>>)
         \/ \E argv \in Argvs : proc = StartProcess("cli", apiKey, argv)
    /\ errOut = NoErrOut

NextStart ==
    \/ ServerConstruct
    \/ ServerRun
    \/ ServerConnected
    \/ ServerConnectFail
    \/ CliMain
    \/ CliCallGenerate
    \/ ReadFileOk
    \/ ReadFileFail
    \/ \E response \in Responses : GenerateContentOk(response)
    \/ \E err \in RemoteErrors : GenerateContentFail(err)
    \/ SaveImageCall
    \/ AddWatermarkOk(1)
    \/ AddWatermarkFail(1)
    \/ Mkdir(1)
    \/ MkdirFail(1)
    \/ WriteFile(1)
    \/ Return(1)
    \/ HandlerReturn
    \/ HandlerCatch
    \/ CliGenerateDone
    \/ \E outcome \in EditOutcomes : CliEdit(outcome)

SpecStart == InitStart /\ [][NextStart]_vars

---------------------------------------------------------------------------
(* Properties of the start-up *)

\* C18: when GOOGLE_API_KEY is unset or empty, createGeminiImageServices
\* throws MissingEnvironmentError and constructs no service; the MCP server
\* exits with code 1, with no handler registered and the transport never
\* connected; a command of the command line that gets as far as creating
\* the services ends with exit code 1, and no tool handler is ever called.
MissingApiKeyStopsStartup ==
    ~Truthy(proc.apiKey) =>
        /\ ~CreateGeminiImageServices(proc.apiKey).ok
        /\ CreateGeminiImageServices(proc.apiKey).err.name = "MissingEnvironmentError"
        /\ CreateGeminiImageServices(proc.apiKey).services = {}
        /\ proc.services = {}
        /\ req.pc = "idle"
        /\ proc.editCalls = 0
        /\ req.remoteCalls = 0
        /\ pc[1] = "idle"
        /\ (proc.mode = "server" /\ proc.pc # "start") =>
              /\ proc.pc = "exited"
              /\ proc.exited
              /\ proc.exitCode = Some(1)
              /\ ~proc.handlers
              /\ ~proc.connected
        /\ (proc.mode = "cli" /\ proc.keyReads > 0) =>
              /\ proc.pc = "end"
              /\ proc.exitCode = Some(1)
              /\ proc.keyReads = 1

\* the server process ended with code 1 for an empty key
ServerExitedWithoutKey ==
    /\ proc.mode = "server"
    /\ proc.apiKey = Some(<<>>)
    /\ proc.pc = "exited"
    /\ proc.exitCode = Some(1)
    /\ ~proc.handlers
    /\ ~proc.connected

---------------------------------------------------------------------------
(* The tools/call handler of the server, part_004 lines 64-101: one request
   to a running server *)

GenerateImageTool == "generate_image"
EditImageTool == "edit_image"

\* errors.ts lines 86-88, called with data
InvalidParamsWith(message, data) == McpError(InvalidParams, message, Some(data))

\* a variant that reports every failure under the fallback code
ServerCaughtAsInternal(err, name) ==
    McpError(InternalError, Text("Tool execution failed"),
             Some({<<"tool", Text(name)>>}))

\* part_004 lines 80-82: the McpError the catch block of the request
\* handler makes of what was thrown
ServerCaught(err, name) ==
    EnsureMcpError(err, InternalError, Text("Tool execution failed"),
                   Some({<<"tool", Text(name)>>}))

\* part_004 lines 79-99: the catch block: the error is converted, logged
\* with console.warn or console.error, and thrown to the SDK
ServerThrow(p, err) ==
    LET mcpError == ServerCaught(err, p.call.name)
    IN [p EXCEPT !.call.pc = "thrown",
                 !.call.caught = err,
                 !.call.thrown = mcpError,
                 !.call.log = IF mcpError.code = InvalidParams
                              THEN "[tools/call] Client error"
                              ELSE "[tools/call] Internal error"]

\* the names and arguments of the requests
ToolNames == {GenerateImageTool, EditImageTool, "bogus", "", "Generate_Image"}
NoArguments == [description |-> Undefined]
ToolArguments(name) ==
    IF name = GenerateImageTool THEN GenerateImageArgs ELSE {NoArguments}

\* part_004 lines 64-78: a tools/call request reaches the handler; a name
\* that is no tool of the server is refused at once, otherwise the tool
\* handler is called next
ToolsCall(name, args) ==
    /\ proc.pc = "running"
    /\ proc.call.pc = "idle"
    /\ LET called == [proc EXCEPT
                        !.call = [pc |-> "handler", name |-> name, args |-> args,
                                  caught |-> NoError, thrown |-> NoError,
                                  result |-> Undefined, log |-> ""]]
       IN proc' = IF name \in {GenerateImageTool, EditImageTool}
                  THEN called
                  ELSE ServerThrow(called,
                          InvalidParamsWith(Text("Unknown tool: " \o name),
                                            {<<"tool", Text(name)>>}))
    /\ UNCHANGED <<saveVars, nameOut, geomOut, req, errOut>>

\* part_004 lines 66-69: handleGenerateImage is called
ServerCallGenerate ==
    /\ proc.pc = "running"
    /\ proc.call.pc = "handler"
    /\ proc.call.name = GenerateImageTool
    /\ HandleGenerateImage(proc.call.args)

\* part_004 lines 68 and 79-99: handleGenerateImage returned or threw
ServerGenerateDone ==
    /\ proc.pc = "running"
    /\ proc.call.pc = "handler"
    /\ proc.call.name = GenerateImageTool
    /\ req.pc \in {"returned", "thrown"}
    /\ proc' = IF req.pc = "thrown"
               THEN ServerThrow(proc, req.thrown)
               ELSE [proc EXCEPT !.call.pc = "returned",
                                 !.call.result = req.returned]
    /\ UNCHANGED <<saveVars, nameOut, geomOut, req, errOut>>

\* what handleEditImage may do: return its content, throw the Error of
\* its argument checks, or fail inside geminiService.editImage
ServerEditOutcomes == {"text", "Error", "TypeError"}

\* part_004 lines 71-74 and 79-99: handleEditImage is called and returns
\* or throws
ServerEdit(outcome) ==
    /\ proc.pc = "running"
    /\ proc.call.pc = "handler"
    /\ proc.call.name = EditImageTool
    /\ LET called == [proc EXCEPT !.editCalls = @ + 1]
       IN proc' = CASE outcome = "text" ->
                        [called EXCEPT !.call.pc = "returned",
                                       !.call.result = Some(<<"e","d","i","t","e","d">>)]
                    [] outcome = "Error" ->
                        ServerThrow(called, NewError(Text("Image path is required")))
                    [] outcome = "TypeError" ->
                        ServerThrow(called,
                            NamedError("TypeError",
                                       Text("geminiService.editImage is not a function")))
    /\ UNCHANGED <<saveVars, nameOut, geomOut, req, errOut>>

InitServer ==
    /\ dirs = UsedFileSystem.dirs
    /\ files = UsedFileSystem.files
    /\ now = 0
    /\ InitCalls
    /\ nameOut = NoName
    /\ geomOut = NoGeom
    /\ req = IdleRequest
    /\ \E apiKey \in ApiKeys : proc = StartProcess("server", apiKey, <<>>)
    /\ errOut = NoErrOut

NextServer ==
    \/ ServerConstruct
    \/ ServerRun
    \/ ServerConnected
    \/ ServerConnectFail
    \/ \E name \in ToolNames : \E args \in ToolArguments(name) : ToolsCall(name, args)
    \/ ServerCallGenerate
    \/ ReadFileOk
    \/ ReadFileFail
    \/ \E response \in Responses : GenerateContentOk(response)
    \/ \E err \in RemoteErrors : GenerateContentFail(err)
    \/ SaveImageCall
    \/ AddWatermarkOk(1)
    \/ AddWatermarkFail(1)
    \/ Mkdir(1)
    \/ MkdirFail(1)
    \/ WriteFile(1)
    \/ Return(1)
    \/ HandlerReturn
    \/ HandlerCatch
    \/ ServerGenerateDone
    \/ \E outcome \in ServerEditOutcomes : ServerEdit(outcome)

SpecServer == InitServer /\ [][NextServer]_vars

---------------------------------------------------------------------------
(* Properties of the tools/call handler *)

\* C27: a tools/call request whose name is neither 'generate_image' nor
\* 'edit_image' fails with the McpError 'Unknown tool: <name>' of code
\* InvalidParams whose data is {tool: <name>}; the code is still
\* InvalidParams, and the message has one prefix, after the catch block of
\* the handler wrapped it, so the request is logged as a client error and
\* not as an internal error; no tool handler and no service method was
\* called, and nothing was read or written.
UnknownToolIsClientError ==
    (proc.call.pc # "idle"
       /\ proc.call.name \notin {"generate_image", "edit_image"}) =>
        /\ proc.call.pc = "thrown"
        /\ proc.call.result = Undefined
        /\ proc.call.caught.kind = "McpError"
        /\ proc.call.caught.code = InvalidParams
        /\ proc.call.thrown.kind = "McpError"
        /\ proc.call.thrown.code = InvalidParams
        /\ proc.call.thrown.code # InternalError
        /\ proc.call.thrown.message
             = [prefixes |-> <<InvalidParams>>,
                text |-> "Unknown tool: " \o proc.call.name, path |-> <<>>]
        /\ proc.call.thrown.data = Some({<<"tool", Text(proc.call.name)>>})
        /\ proc.call.log = "[tools/call] Client error"
        /\ req = IdleRequest
        /\ proc.editCalls = 0
        /\ pc[1] = "idle"
        /\ steps[1] = <<>>
        /\ dirs = UsedFileSystem.dirs
        /\ files = UsedFileSystem.files

\* a request for 'Generate_Image' was refused by the running server
RefusedMisspelledTool ==
    /\ proc.pc = "running"
    /\ proc.call.pc = "thrown"
    /\ proc.call.name = "Generate_Image"
    /\ proc.call.thrown.code = InvalidParams
    /\ proc.call.log = "[tools/call] Client error"
    /\ req.pc = "idle"

---------------------------------------------------------------------------
(* ensureMcpError alone, errors.ts lines 51-84, applied as the catch block
   of handleGenerateImage and then the catch block of the request handler
   apply it *)

\* the data of McpErrors: none, an empty record, records with and without
\* the keys the two catch blocks add
ErrDataInputs ==
    {Undefined,
     Some({}),
     Some({<<"stage", Text("edit_image.tool")>>}),
     Some({<<"tool", Text("generate_image")>>}),
     Some({<<"tool", Text("other")>>, <<"stage", Text("inner")>>,
           <<"cause", Text("boom")>>})}

\* messages given to the McpError constructor: a plain one, and one that
\* itself starts with an 'MCP error <code>: ' prefix
ErrMessageInputs ==
    {Text("Description is required"),
     [prefixes |-> <<InvalidParams>>, text |-> "Description is required",
      path |-> <<>>]}

ErrInputs ==
    {McpError(code, message, data) :
        code \in {InvalidParams, InternalError},
        message \in ErrMessageInputs,
        data \in ErrDataInputs}
      \cup {NewError(Text("boom")), NamedError("TypeError", Text("fetch failed"))}

InitErr ==
    /\ dirs = BareFileSystem.dirs
    /\ files = BareFileSystem.files
    /\ now = 0
    /\ InitCalls
    /\ nameOut = NoName
    /\ geomOut = NoGeom
    /\ req = NoRequest
    /\ proc = NoProcess
    /\ \E err \in ErrInputs, name \in ToolNames :
         errOut = [step |-> 0, err |-> err, tool |-> name,
                   first |-> NoError, second |-> NoError]

\* generateImage.ts lines 79-83
WrapInToolHandler ==
    /\ errOut.step = 0
    /\ errOut' = [errOut EXCEPT !.step = 1, !.first = Caught(errOut.err)]
    /\ UNCHANGED <<saveVars, nameOut, geomOut, req, proc>>

\* part_004 lines 79-82
WrapInServerHandler ==
    /\ errOut.step = 1
    /\ errOut' = [errOut EXCEPT !.step = 2,
                                !.second = ServerCaught(errOut.first, errOut.tool)]
    /\ UNCHANGED <<saveVars, nameOut, geomOut, req, proc>>

NextErr == WrapInToolHandler \/ WrapInServerHandler

SpecErr == InitErr /\ [][NextErr]_vars

\* the key/value pairs of the data of an McpError
ErrData(e) == IF IsDefined(e.data) THEN e.data[1] ELSE {}

\* C26: ensureMcpError applied to an McpError returns an McpError with
\* the same code and the same message (one 'MCP error <code>: ' prefix is
\* stripped and one is added, so no second prefix appears, and the
\* fallback code and message are not used); its data is the old data
\* with the extra keys put over it.  After the catch block of the tool
\* handler and then the one of the request handler, the data holds stage
\* and tool, each key once, the key of the later layer replacing an
\* earlier one of the same name, every other earlier key kept.
EnsureMcpErrorKeepsCodeAndMerges ==
    LET stage == <<"stage", Text("generate_image.tool")>>
        tool == <<"tool", Text(errOut.tool)>>
        fallbacks == {"Failed to generate image", "Tool execution failed"}
    IN /\ errOut.step >= 1 =>
             /\ errOut.first.kind = "McpError"
             /\ stage \in ErrData(errOut.first)
             /\ errOut.err.kind = "McpError" =>
                   /\ errOut.first.code = errOut.err.code
                   /\ errOut.first.message = errOut.err.message
                   /\ errOut.first.message.text \notin fallbacks
                   /\ ErrData(errOut.first)
                        = {d \in ErrData(errOut.err) : d[1] # "stage"} \cup {stage}
       /\ errOut.step = 2 =>
             /\ errOut.second.kind = "McpError"
             /\ errOut.second.code = errOut.first.code
             /\ errOut.second.message = errOut.first.message
             /\ Len(errOut.second.message.prefixes)
                  = Len(errOut.first.message.prefixes)
             /\ ErrData(errOut.second)
                  = {d \in ErrData(errOut.first) : d[1] # "tool"} \cup {tool}
             /\ stage \in ErrData(errOut.second)
             /\ tool \in ErrData(errOut.second)
             /\ \A a, b \in ErrData(errOut.second) : a[1] = b[1] => a = b
             /\ errOut.err.kind = "McpError" =>
                   /\ errOut.second.code = errOut.err.code
                   /\ errOut.second.message = errOut.err.message
             /\ errOut.err.kind # "McpError" =>
                   /\ errOut.second.code = InternalError
                   /\ errOut.second.message
                        = [prefixes |-> <<InternalError>>,
                           text |-> "Failed to generate image", path |-> <<>>]

\* an InvalidParams error that held tool = 'other' and stage = 'inner'
\* went through both catch blocks for the tool 'bogus'
WrappedTwiceOverOldKeys ==
    /\ errOut.step = 2
    /\ errOut.tool = "bogus"
    /\ errOut.err.kind = "McpError"
    /\ errOut.err.code = InvalidParams
    /\ <<"tool", Text("other")>> \in ErrData(errOut.err)
    /\ errOut.second.code = InvalidParams
    /\ ErrData(errOut.second)
         = {<<"tool", Text("bogus")>>, <<"stage", Text("generate_image.tool")>>,
            <<"cause", Text("boom")>>}

---------------------------------------------------------------------------
(* Properties of the command line *)

HelpFlags == {<<"-","h">>, <<"-","-","h","e","l","p">>}
VersionFlags == {<<"-","v">>, <<"-","-","v","e","r","s","i","o","n">>}
CommandNames == {<<"g","e","n","e","r","a","t","e">>, <<"e","d","i","t">>}

\* the process is a command line whose first argument is a command name
IsCommandLine ==
    /\ proc.mode = "cli"
    /\ proc.argv # <<>>
    /\ proc.argv[1] \in CommandNames
\* some argument after the command name is a version flag, a help flag
AskedVersion == \E i \in 2..Len(proc.argv) : proc.argv[i] \in VersionFlags
AskedHelp == \E i \in 2..Len(proc.argv) : proc.argv[i] \in HelpFlags
\* the command is run: runGenerate or runEdit is called
CommandRuns == IsCommandLine /\ ~AskedVersion /\ ~AskedHelp
\* what the parser of the command makes of the arguments
ParsedCommand ==
    IF proc.argv[1] = <<"e","d","i","t">>
    THEN ParseEditCommand(Tail(proc.argv))
    ELSE ParseGenerateCommand(Tail(proc.argv))
\* nothing of the command ran: no key read, no service, no handler, no
\* remote call, no saveImage, the file system as it was
NothingRan ==
    /\ proc.keyReads = 0
    /\ proc.services = {}
    /\ proc.editCalls = 0
    /\ proc.handled = "none"
    /\ req = IdleRequest
    /\ pc[1] = "idle"
    /\ steps[1] = <<>>
    /\ dirs = UsedFileSystem.dirs
    /\ files = UsedFileSystem.files

\* C28: when a command line process has ended, its exit code is 1 if the
\* command was unknown, the parsing of the arguments threw, the creation
\* of the services failed, the tool handler threw (an McpError, an Error
\* or another value) or its result held no text item; it is unset if help
\* or the version was asked for and printed, or the path of the image was
\* printed; one of these cases always applies, and before the end the
\* exit code is unset.
ExitCodeOneOnEveryFailure ==
    proc.mode = "cli" =>
        IF proc.pc \notin {"end", "exited"}
        THEN proc.exitCode = Undefined
        ELSE LET argv == proc.argv
                 topLevelHelp == argv = <<>> \/ argv[1] \in HelpFlags \cup VersionFlags
                 unknown == ~topLevelHelp /\ argv[1] \notin CommandNames
                 asked == IsCommandLine /\ (AskedVersion \/ AskedHelp)
                 parsingThrew == CommandRuns /\ ParsedCommand.kind = "error"
                 creationFailed == /\ CommandRuns
                                   /\ ParsedCommand.kind = "options"
                                   /\ proc.apiKey \in {Undefined, Some(<<>>)}
                 handlerFailed == proc.handled \in {"threw", "no text"}
                 printedPath == proc.handled = "text"
             IN /\ (unknown \/ parsingThrew \/ creationFailed \/ handlerFailed)
                     => proc.exitCode = Some(1)
                /\ (topLevelHelp \/ asked \/ printedPath)
                     => proc.exitCode = Undefined
                /\ unknown \/ parsingThrew \/ creationFailed \/ handlerFailed
                     \/ topLevelHelp \/ asked \/ printedPath
                /\ printedPath => "Saved image to" = proc.out[Len(proc.out)]

\* the edit handler threw a value that is no Error; the exit code is 1
ExitedAfterThrownValue ==
    /\ proc.mode = "cli"
    /\ proc.pc = "end"
    /\ proc.handled = "threw"
    /\ proc.out = <<"[command] boom">>
    /\ proc.exitCode = Some(1)

\* C29: for a generate or edit command line that the parser refuses
\* (unknown option, option without value, invalid aspect or watermark
\* position, missing --prompt or --input), the parsing ends before the
\* services are created: the API key is never read, no service exists, no
\* handler and no remote call runs, nothing is written, and the command
\* ends with exit code 1.
InvalidCommandLineTouchesNothing ==
    (CommandRuns /\ ParsedCommand.kind = "error") =>
        /\ NothingRan
        /\ proc.pc \in {"start", "end"}
        /\ proc.pc = "end" =>
              /\ proc.exitCode = Some(1)
              /\ Len(proc.out) = 1

\* 'generate -p x --watermark-position=middle' ended with exit code 1 for
\* a process that has an API key
RefusedWatermarkPositionWithKey ==
    /\ CommandRuns
    /\ proc.pc = "end"
    /\ Len(proc.argv) = 4
    /\ proc.argv[2] = <<"-","p">>
    /\ ParsedCommand.kind = "error"
    /\ proc.apiKey = Some(<<"k","e","y">>)
    /\ proc.keyReads = 0
    /\ proc.exitCode = Some(1)

\* C30: when main has run for a command line with a supported command
\* name: if some later argument is -v or --version, the version is
\* printed and the command is not run; otherwise, if some later argument
\* is -h or --help, the help of the command is printed and the command is
\* not run.  The version wins over help, and the place of the argument
\* does not matter, even where it follows an option that takes a value.
\* In both cases the exit code stays unset and the arguments are not
\* parsed.
VersionThenHelpBeforeCommand ==
    (IsCommandLine /\ proc.pc # "start") =>
        /\ AskedVersion =>
              /\ proc.pc = "end"
              /\ proc.out = <<"version">>
              /\ proc.exitCode = Undefined
              /\ NothingRan
        /\ (AskedHelp /\ ~AskedVersion) =>
              /\ proc.pc = "end"
              /\ proc.out = <<"command help">>
              /\ proc.exitCode = Undefined
              /\ NothingRan
        /\ (~AskedHelp /\ ~AskedVersion) =>
              \A i \in DOMAIN proc.out :
                  proc.out[i] \notin {"version", "command help"}

\* 'edit --help -v' printed the version
PrintedVersionAfterHelpFlag ==
    /\ IsCommandLine
    /\ proc.pc = "end"
    /\ proc.argv[2] \in HelpFlags
    /\ proc.argv[3] = <<"-","v">>
    /\ proc.out = <<"version">>

====
